---- MODULE Spec2Model ----
(***************************************************************************)
(* Model of linux-gpib-rs: the status/error decoders, the traditional      *)
(* wrappers, the asynchronous completion layer (asynchronous.rs and        *)
(* InstrumentHandle in instrument.rs), the handle life cycle, the address  *)
(* types and the multidevice list operations.                              *)
(*                                                                         *)
(* The native driver is the environment.  Every native call returns a     *)
(* status word and leaves an error code and a byte count in the calling    *)
(* thread's thread-local variables and in the process-global variables     *)
(* ibsta / iberr / ibcntl, which the last call of any thread overwrites.   *)
(* ibwait additionally resynchronises the result of the asynchronous I/O   *)
(* (AsyncIbsta / AsyncIberr / AsyncIbcntl) to the thread that calls it.    *)
(***************************************************************************)
EXTENDS Integers, Sequences, FiniteSets, TLC

(***************************************************************************)
(* Bounds of the model.                                                    *)
(***************************************************************************)
\* number of chunk requests one read may issue before the driver is made
\* to end the message
MaxChunks == 3
\* number of descriptors the driver hands out
MaxUd == 2
\* number of Instrument::open calls
MaxOpens == 3

(***************************************************************************)
(* Status word: the bit numbers of linux_gpib_sys.                         *)
(***************************************************************************)
DCAS_NUM == 0
DTAS_NUM == 1
LACS_NUM == 2
TACS_NUM == 3
ATN_NUM == 4
CIC_NUM == 5
REM_NUM == 6
LOK_NUM == 7
CMPL_NUM == 8
EVENT_NUM == 9
SPOLL_NUM == 10
RQS_NUM == 11
SRQI_NUM == 12
END_NUM == 13
TIMO_NUM == 14
ERR_NUM == 15

RECURSIVE Pow2(_)
Pow2(n) == IF n = 0 THEN 1 ELSE 2 * Pow2(n - 1)

\* ((1 << n) & x) != 0
BitSet(x, n) == (x \div Pow2(n)) % 2 = 1

\* IbStatus::from_ibsta
from_ibsta(ibsta) ==
    [dcas |-> BitSet(ibsta, DCAS_NUM), dtas |-> BitSet(ibsta, DTAS_NUM),
     lacs |-> BitSet(ibsta, LACS_NUM), tacs |-> BitSet(ibsta, TACS_NUM),
     atn |-> BitSet(ibsta, ATN_NUM), cic |-> BitSet(ibsta, CIC_NUM),
     rem |-> BitSet(ibsta, REM_NUM), lok |-> BitSet(ibsta, LOK_NUM),
     cmpl |-> BitSet(ibsta, CMPL_NUM), event |-> BitSet(ibsta, EVENT_NUM),
     spoll |-> BitSet(ibsta, SPOLL_NUM), rqs |-> BitSet(ibsta, RQS_NUM),
     srqi |-> BitSet(ibsta, SRQI_NUM), end |-> BitSet(ibsta, END_NUM),
     timo |-> BitSet(ibsta, TIMO_NUM), err |-> BitSet(ibsta, ERR_NUM)]

\* ibsta | (1 << n)
OrBit(x, n) == IF BitSet(x, n) THEN x ELSE x + Pow2(n)

\* a step of as_ibsta that sets the bit whatever the flag
SetIf_always(flag, x, n) == OrBit(x, n)

\* one step of as_ibsta: if self.flag { ibsta = ibsta | (1 << NUM) }
SetIf(flag, x, n) == IF flag THEN OrBit(x, n) ELSE x

\* IbStatus::as_ibsta, flag after flag from ibsta = 0
as_ibsta(s) ==
    LET b0 == SetIf(s.dcas, 0, DCAS_NUM)
        b1 == SetIf(s.dtas, b0, DTAS_NUM)
        b2 == SetIf(s.lacs, b1, LACS_NUM)
        b3 == SetIf(s.tacs, b2, TACS_NUM)
        b4 == SetIf(s.atn, b3, ATN_NUM)
        b5 == SetIf(s.cic, b4, CIC_NUM)
        b6 == SetIf(s.rem, b5, REM_NUM)
        b7 == SetIf(s.lok, b6, LOK_NUM)
        b8 == SetIf(s.cmpl, b7, CMPL_NUM)
        b9 == SetIf(s.event, b8, EVENT_NUM)
        b10 == SetIf(s.spoll, b9, SPOLL_NUM)
        b11 == SetIf(s.rqs, b10, RQS_NUM)
        b12 == SetIf(s.srqi, b11, SRQI_NUM)
        b13 == SetIf(s.end, b12, END_NUM)
        b14 == SetIf(s.timo, b13, TIMO_NUM)
    IN SetIf(s.err, b14, ERR_NUM)

\* the status words with single flags
ERR == Pow2(ERR_NUM)
TIMO == Pow2(TIMO_NUM)
END == Pow2(END_NUM)
RQS == Pow2(RQS_NUM)
CMPL == Pow2(CMPL_NUM)

(***************************************************************************)
(* Error decoder.                                                          *)
(***************************************************************************)
\* Result<IbError, GpibError> of the decoder
OkErr(kind, val) == [ok |-> TRUE, kind |-> kind, val |-> val]
BadErr == [ok |-> FALSE, kind |-> "ValueError", val |-> 0]

\* IbError::from_iberr with the unassigned code 9 decoded like 10
from_iberr_gapless(iberr, cntl) ==
    CASE iberr = 0 -> OkErr("EDVR", cntl)
      [] iberr = 1 -> OkErr("ECIC", 0)
      [] iberr = 2 -> OkErr("ENOL", 0)
      [] iberr = 3 -> OkErr("EADR", 0)
      [] iberr = 4 -> OkErr("EARG", 0)
      [] iberr = 5 -> OkErr("ESAC", 0)
      [] iberr = 6 -> OkErr("EABO", 0)
      [] iberr = 7 -> OkErr("ENEB", 0)
      [] iberr = 8 -> OkErr("EDMA", 0)
      [] iberr \in {9, 10} -> OkErr("EOIP", 0)
      [] iberr = 11 -> OkErr("ECAP", 0)
      [] iberr = 12 -> OkErr("EFSO", cntl)
      [] iberr = 14 -> OkErr("EBUS", 0)
      [] iberr = 15 -> OkErr("ESTB", 0)
      [] iberr = 16 -> OkErr("ESRQ", 0)
      [] iberr = 20 -> OkErr("ETAB", 0)
      [] OTHER -> [BadErr EXCEPT !.val = iberr]

\* IbError::from_iberr: EDVR and EFSO carry the process-global ibcntl read
\* at the moment of decoding (the argument cntl).
from_iberr(iberr, cntl) ==
    CASE iberr = 0 -> OkErr("EDVR", cntl)
      [] iberr = 1 -> OkErr("ECIC", 0)
      [] iberr = 2 -> OkErr("ENOL", 0)
      [] iberr = 3 -> OkErr("EADR", 0)
      [] iberr = 4 -> OkErr("EARG", 0)
      [] iberr = 5 -> OkErr("ESAC", 0)
      [] iberr = 6 -> OkErr("EABO", 0)
      [] iberr = 7 -> OkErr("ENEB", 0)
      [] iberr = 8 -> OkErr("EDMA", 0)
      [] iberr = 10 -> OkErr("EOIP", 0)
      [] iberr = 11 -> OkErr("ECAP", 0)
      [] iberr = 12 -> OkErr("EFSO", cntl)
      [] iberr = 14 -> OkErr("EBUS", 0)
      [] iberr = 15 -> OkErr("ESTB", 0)
      [] iberr = 16 -> OkErr("ESRQ", 0)
      [] iberr = 20 -> OkErr("ETAB", 0)
      [] OTHER -> [BadErr EXCEPT !.val = iberr]

(***************************************************************************)
(* Results of the operations (Result<_, GpibError>, or a panic).           *)
(***************************************************************************)
NoErr == [kind |-> "none", val |-> 0]
NoOutcome == [kind |-> "None", status |-> 0, err |-> NoErr, val |-> << >>, n |-> 0]
Success(val, n) == [kind |-> "Ok", status |-> 0, err |-> NoErr, val |-> val, n |-> n]
Timeout == [kind |-> "Timeout", status |-> 0, err |-> NoErr, val |-> << >>, n |-> 0]
ValueError == [kind |-> "ValueError", status |-> 0, err |-> NoErr, val |-> << >>, n |-> 0]
Panic == [kind |-> "Panic", status |-> 0, err |-> NoErr, val |-> << >>, n |-> 0]
TokioError == [kind |-> "TokioError", status |-> 0, err |-> NoErr, val |-> << >>, n |-> 0]
\* the JoinError of a spawn_blocking task that did not run to completion
JoinError == [kind |-> "JoinError", status |-> 0, err |-> NoErr, val |-> << >>, n |-> 0]
\* a conversion of JoinError that loses the kind of the error
From_JoinError_value(e) == ValueError
\* impl From<JoinError> for GpibError, applied by the `?` after `.await`
From_JoinError(e) == TokioError
\* GpibError::DriverError(status, e), or the ValueError of a failed decode
\* (the `?` after the decoder)
DriverError(status, dec) ==
    IF dec.ok
    THEN [kind |-> "DriverError", status |-> status,
          err |-> [kind |-> dec.kind, val |-> dec.val], val |-> << >>, n |-> 0]
    ELSE ValueError

(***************************************************************************)
(* Byte strings, run-length encoded: a sequence of runs [b, n] stands for  *)
(* n copies of the byte b, run after run.                                  *)
(***************************************************************************)
BUFFER_SIZE == 1024

Run(b, n) == IF n > 0 THEN << [b |-> b, n |-> n] >> ELSE << >>

RECURSIVE ByteLen(_)
ByteLen(s) == IF s = << >> THEN 0 ELSE Head(s).n + ByteLen(Tail(s))

\* s[0..n]; the caller checks n <= ByteLen(s)
RECURSIVE Slice(_, _)
Slice(s, n) ==
    IF n = 0 \/ s = << >> THEN << >>
    ELSE IF Head(s).n >= n THEN Run(Head(s).b, n)
    ELSE << Head(s) >> \o Slice(Tail(s), n - Head(s).n)

\* [0; BUFFER_SIZE]
ZeroBuffer == Run(0, BUFFER_SIZE)

\* the buffer after the driver stored w bytes b at its start
Filled(b, w) == Run(b, w) \o Run(0, BUFFER_SIZE - w)

\* String::from_utf8 succeeds: over the bytes the driver model produces
\* (0x00, 0x41, 0xff) a string is valid UTF-8 exactly when every byte is
\* below 0x80
Utf8Valid(s) == \A i \in 1..Len(s) : s[i].b < 128

\* String::from_utf8(result)?
from_utf8(s) == IF Utf8Valid(s) THEN Success(s, ByteLen(s)) ELSE ValueError

(***************************************************************************)
(* State.                                                                  *)
(***************************************************************************)
VARIABLES
    tasks,      \* the tasks that run in this behaviour
    drv,        \* which answers the driver may give in this behaviour
    ud,         \* ud[t]: the descriptor task t works on
    op,         \* op[t]: the operation task t runs
    pc,         \* pc[t]: where the future of task t stands
    wk,         \* wk[t]: the spawn_blocking closure of the task's wait
    nreq,       \* nreq[t]: ibrda / ibrd requests issued by the current read
    buffer,     \* buffer[t]: the chunk buffer of the current read
    result,     \* result[t]: the bytes accumulated by the current read
    wres,       \* wres[t]: what the wait closure returned
    outcome,    \* outcome[t]: what the operation returned
    gIbsta,     \* process-global ibsta
    gIberr,     \* process-global iberr
    gIbcntl,    \* process-global ibcntl
    chunks,     \* chunks[t]: the completions the driver made for the read
    used,       \* used[t]: the byte counts the read sliced its chunks with
    waits,      \* waits[t]: ibwait calls started by the current operation
    issueErr,   \* issueErr[t]: the issue call of the operation reported ERR
    stale       \* a driver operation stored into a freed buffer

asyncVars == << tasks, drv, ud, op, pc, wk, nreq, buffer, result, wres,
                outcome, chunks, used, waits, issueErr, stale >>
globVars == << gIbsta, gIberr, gIbcntl >>

VARIABLES
    wkind,      \* the traditional wrapper a thread calls
    wpc,        \* where that call stands
    wdata,      \* the data given to ibwrt: "text", or "binary" (not UTF-8)
    wdebug,     \* the log level lets log::debug! evaluate its arguments
    wret,       \* the status word the native call returned (ThreadIbsta)
    tIberr,     \* ThreadIberr of the calling thread
    tIbcntl,    \* ThreadIbcntl of the calling thread
    aIbsta,     \* AsyncIbsta of the calling thread
    aIberr,     \* AsyncIberr of the calling thread
    aIbcntl,    \* AsyncIbcntl of the calling thread
    wout        \* what the wrapper returned

wrapVars == << wkind, wpc, wdata, wdebug, wret, tIberr, tIbcntl, aIbsta, aIberr,
               aIbcntl, wout >>

VARIABLES
    openUds,    \* the descriptors that are open in the driver
    nopen,      \* Instrument::open calls made
    hstate,     \* hstate[h]: "none", "live" or "dropped"
    hud,        \* hud[h]: the descriptor InstrumentHandle h holds
    hused,      \* hused[h]: an operation was called on h
    closes,     \* closes[h]: ibonl(ud, Close) calls made for h
    badClose,   \* a close was issued for a descriptor that was not open
    unowned     \* descriptors left open by a failed Instrument::open

lifeVars == << openUds, nopen, hstate, hud, hused, closes, badClose, unowned >>

VARIABLES
    fn,         \* the function that was applied, "none" before
    arg,        \* its input
    ret,        \* what it returned
    calls       \* the native calls it made, in order

pureVars == << fn, arg, ret, calls >>

Tasks == {1, 2}
Uds == 0 .. (MaxUd - 1)
\* asynchronous::read / write, InstrumentHandle::read / write / blocking_read
Ops == {"aread", "awrite", "hread", "hwrite", "bread"}
ReadOps == {"aread", "hread", "bread"}
OldOps == {"aread", "awrite"}
NoBuffer == << >>

\* status words over the flags the completion layer looks at
RECURSIVE SumSet(_)
SumSet(S) == IF S = {} THEN 0 ELSE LET x == CHOOSE y \in S : TRUE IN x + SumSet(S \ {x})
AllStatuses == { SumSet(F) : F \in SUBSET {ERR, TIMO, END, CMPL, RQS} }
ReadStatuses == { SumSet(F) : F \in SUBSET {ERR, TIMO, END, CMPL} }
CoreStatuses == {CMPL, CMPL + END, TIMO, ERR + CMPL}

\* the driver's answers when one task runs alone
FullDriver ==
    [rstatuses |-> ReadStatuses, wstatuses |-> AllStatuses,
     counts |-> {0, 500, 1024, 1025}, fills |-> {65, 255},
     wcounts |-> {6}, issue |-> {0, ERR + CMPL}, errs |-> {<< 0, 7 >>, << 6, 0 >>}]
\* the driver's answers when two tasks run
CoreDriver ==
    [rstatuses |-> CoreStatuses, wstatuses |-> CoreStatuses,
     counts |-> {500}, fills |-> {65},
     wcounts |-> {6}, issue |-> {0, ERR + CMPL}, errs |-> {<< 0, 7 >>}]
Driver == IF drv = "full" THEN FullDriver ELSE CoreDriver

Min(a, b) == IF a < b THEN a ELSE b

(***************************************************************************)
(* Error retrieval contexts.                                               *)
(***************************************************************************)
\* IbStatus::current_status: the process-global ibsta
current_status(sta) == from_ibsta(sta)

\* IbStatus::current_thread_local_status: ThreadIbsta() of the calling thread
current_thread_local_status(tsta) == from_ibsta(tsta)

\* IbStatus::current_async_local_status: AsyncIbsta() of the calling thread
current_async_local_status(asta) == from_ibsta(asta)

\* IbError::current_error of the first API: the process-global ibsta and
\* iberr (as IbError::current_global_error)
current_error(sta, err, cntl) ==
    IF current_status(sta).err THEN from_iberr(err, cntl) ELSE BadErr

\* IbError::current_thread_local_error: ThreadIbsta and ThreadIberr of the
\* calling thread; from_iberr reads the process-global ibcntl
current_thread_local_error(tsta, terr, cntl) ==
    IF current_thread_local_status(tsta).err THEN from_iberr(terr, cntl) ELSE BadErr

\* IbError::current_async_local_error: AsyncIbsta and AsyncIberr of the
\* calling thread; from_iberr reads the process-global ibcntl
current_async_local_error(asta, aerr, cntl) ==
    IF current_async_local_status(asta).err THEN from_iberr(aerr, cntl) ELSE BadErr

(***************************************************************************)
(* What the wait closure hands back to the suspended future.               *)
(***************************************************************************)
Raw(w) == [kind |-> "Raw", status |-> w, err |-> NoErr, val |-> << >>, n |-> 0]
WaitOk(w, n) == [kind |-> "Ok", status |-> w, err |-> NoErr, val |-> << >>, n |-> n]
NoRes == [kind |-> "None", status |-> 0, err |-> NoErr, val |-> << >>, n |-> 0]

\* lowlevel::traditional::ibwait, the closure run by spawn_blocking:
\* w is the status ibwait returned, asta / aerr / acnt the resynchronised
\* asynchronous values of the worker thread, cntl the global ibcntl
ibwait(w, asta, aerr, acnt, cntl) ==
    IF from_ibsta(w).err
    THEN DriverError(w, current_async_local_error(asta, aerr, cntl))
    ELSE WaitOk(w, acnt)

\* asynchronous::wait, the closure run by spawn_blocking
wait_closure(w) == Raw(w)

(***************************************************************************)
(* The bodies of the operations after the completion is known.             *)
(***************************************************************************)
Step(next, out, res, cnt) == [next |-> next, out |-> out, res |-> res, cnt |-> cnt]

\* read_body without the test for a short chunk
read_body_noshort(status, n_read, buf, res) ==
    IF n_read > ByteLen(buf)
    THEN Step("done", Panic, res, n_read)
    ELSE LET r == IF n_read > 0 THEN res \o Slice(buf, n_read) ELSE res
         IN IF status.end \/ n_read = 0
            THEN Step("done", from_utf8(r), r, n_read)
            ELSE Step("loop", NoOutcome, r, n_read)

\* the loop body of the reads once status and n_read are known:
\* buffer[0..n_read] panics when n_read exceeds the buffer
read_body(status, n_read, buf, res) ==
    IF n_read > ByteLen(buf)
    THEN Step("done", Panic, res, n_read)
    ELSE LET r == IF n_read > 0 THEN res \o Slice(buf, n_read) ELSE res
         IN IF status.end \/ n_read < BUFFER_SIZE \/ n_read = 0
            THEN Step("done", from_utf8(r), r, n_read)
            ELSE Step("loop", NoOutcome, r, n_read)

\* write_tail that takes every status without TIMO for a success
write_tail_open(status) ==
    IF status.timo THEN Timeout
    ELSE Success(<< >>, 0)

\* the end of the writes once the status is known
write_tail(status) ==
    IF status.timo THEN Timeout
    ELSE IF status.cmpl \/ status.end THEN Success(<< >>, 0)
    ELSE ValueError

\* asynchronous::read after `wait(..).await`: sta / err / cntl are the
\* process-global variables at the time the task runs again
aread_resume(r, sta, err, cntl, buf, res) ==
    LET status == from_ibsta(r.status)
    IN IF status.err
       THEN Step("done", DriverError(r.status, current_error(sta, err, cntl)), res, -1)
       ELSE IF status.timo THEN Step("done", Timeout, res, -1)
       ELSE read_body(status, cntl, buf, res)

\* InstrumentHandle::read after `ibwait(..).await`
hread_resume(r, cntl, buf, res) ==
    LET status == from_ibsta(r.status)
    IN IF r.kind # "Ok" THEN Step("done", r, res, -1)
       ELSE IF status.err
       THEN Step("done", DriverError(r.status, current_thread_local_error(r.status, 0, cntl)), res, -1)
       ELSE IF status.timo THEN Step("done", Timeout, res, -1)
       ELSE read_body(status, r.n, buf, res)

\* asynchronous::write after `wait(..).await`
awrite_resume(r, sta, err, cntl) ==
    LET status == from_ibsta(r.status)
    IN IF status.err
       THEN DriverError(r.status, current_error(sta, err, cntl))
       ELSE write_tail(status)

\* InstrumentHandle::write after `ibwait(..).await`
hwrite_resume(r, cntl) ==
    LET status == from_ibsta(r.status)
    IN IF r.kind # "Ok" THEN r
       ELSE IF status.err
       THEN DriverError(r.status, current_thread_local_error(r.status, 0, cntl))
       ELSE write_tail(status)

\* lowlevel::traditional::ibrd on the status s, thread-local error e and
\* thread-local count c of the native call
ibrd(s, e, c, cntl, len) ==
    IF from_ibsta(s).err
    THEN DriverError(s, current_thread_local_error(s, e, cntl))
    ELSE IF c > len THEN ValueError
    ELSE WaitOk(s, c)

(***************************************************************************)
(* The driver's answers.                                                   *)
(***************************************************************************)
\* a completion: the status w that ibwait (or ibrd) returns, the byte count
\* n and the byte b of the transfer, the error code e, and the status asta
\* of the asynchronous I/O itself, which has ERR or not when w has ERR
Completion(w, n, b, e, asta) == [w |-> w, n |-> n, b |-> b, e |-> e, asta |-> asta]

Completions(isRead) ==
    { Completion(w, n, b, 0, w) :
        w \in { x \in IF isRead THEN Driver.rstatuses ELSE Driver.wstatuses : ~ from_ibsta(x).err },
        n \in IF isRead THEN Driver.counts ELSE Driver.wcounts,
        b \in IF isRead THEN Driver.fills ELSE {0} }
    \cup
    { Completion(w, ec[2], 0, ec[1], a) :
        w \in { x \in IF isRead THEN Driver.rstatuses ELSE Driver.wstatuses : from_ibsta(x).err },
        ec \in Driver.errs,
        a \in {ERR + CMPL, CMPL} }

\* the driver ends the message at the latest with chunk MaxChunks: the
\* completions after which read o asks for no further chunk
EndsRead(o, c) ==
    \/ from_ibsta(c.w).err
    \/ o # "bread" /\ from_ibsta(c.w).timo
    \/ from_ibsta(c.w).end
    \/ c.n # BUFFER_SIZE

\* the buffer after the driver completed c on it
Stored(c) == IF from_ibsta(c.w).err THEN ZeroBuffer ELSE Filled(c.b, Min(c.n, BUFFER_SIZE))

(***************************************************************************)
(* Actions of the asynchronous layer.                                      *)
(***************************************************************************)
\* a task calls an operation on its descriptor
Start(t, o) ==
    /\ t \in tasks
    /\ pc[t] = "idle"
    /\ op' = [op EXCEPT ![t] = o]
    /\ pc' = [pc EXCEPT ![t] = "loop"]
    /\ nreq' = [nreq EXCEPT ![t] = 0]
    /\ result' = [result EXCEPT ![t] = << >>]
    /\ outcome' = [outcome EXCEPT ![t] = NoOutcome]
    /\ chunks' = [chunks EXCEPT ![t] = << >>]
    /\ used' = [used EXCEPT ![t] = << >>]
    /\ waits' = [waits EXCEPT ![t] = 0]
    /\ issueErr' = [issueErr EXCEPT ![t] = FALSE]
    /\ wres' = [wres EXCEPT ![t] = NoRes]
    /\ UNCHANGED << wrapVars, lifeVars, pureVars >>
    /\ UNCHANGED << tasks, drv, ud, wk, buffer, gIbsta, gIberr, gIbcntl, stale >>

\* Issue that starts the wait whatever the status of the issue call
Issue_waits(t) ==
    /\ t \in tasks
    /\ pc[t] = "loop"
    /\ op[t] \in {"aread", "hread", "awrite", "hwrite"}
    /\ \E s \in Driver.issue, ec \in Driver.errs :
         LET isErr == from_ibsta(s).err
             e == IF isErr THEN ec[1] ELSE gIberr
             c == IF isErr THEN ec[2] ELSE 0
         IN /\ gIbsta' = s
            /\ gIberr' = e
            /\ gIbcntl' = c
            /\ nreq' = [nreq EXCEPT ![t] = @ + 1]
            /\ issueErr' = [issueErr EXCEPT ![t] = isErr]
            /\ pc' = [pc EXCEPT ![t] = "suspended"]
            /\ wk' = [wk EXCEPT ![t] = "running"]
            /\ waits' = [waits EXCEPT ![t] = @ + 1]
            /\ buffer' = [buffer EXCEPT ![t] =
                            IF op[t] \in ReadOps THEN ZeroBuffer ELSE NoBuffer]
            /\ UNCHANGED outcome
    /\ UNCHANGED << wrapVars, lifeVars, pureVars >>
    /\ UNCHANGED << tasks, drv, ud, op, result, wres, chunks, used, stale >>

\* ibrda / ibwrta and the start of the wait: the first part of a loop turn
\* of read, or of write, up to the `.await`
Issue(t) ==
    /\ t \in tasks
    /\ pc[t] = "loop"
    /\ op[t] \in {"aread", "hread", "awrite", "hwrite"}
    /\ \E s \in Driver.issue, ec \in Driver.errs :
         LET isErr == from_ibsta(s).err
             e == IF isErr THEN ec[1] ELSE gIberr
             c == IF isErr THEN ec[2] ELSE 0
             dec == IF op[t] \in OldOps
                    THEN current_error(s, e, c)
                    ELSE current_thread_local_error(s, e, c)
         IN /\ gIbsta' = s
            /\ gIberr' = e
            /\ gIbcntl' = c
            /\ nreq' = [nreq EXCEPT ![t] = @ + 1]
            /\ issueErr' = [issueErr EXCEPT ![t] = isErr]
            /\ IF isErr
               THEN /\ outcome' = [outcome EXCEPT ![t] = DriverError(s, dec)]
                    /\ pc' = [pc EXCEPT ![t] = "done"]
                    /\ buffer' = [buffer EXCEPT ![t] = NoBuffer]
                    /\ UNCHANGED << wk, waits >>
               ELSE /\ pc' = [pc EXCEPT ![t] = "suspended"]
                    /\ wk' = [wk EXCEPT ![t] = "running"]
                    /\ waits' = [waits EXCEPT ![t] = @ + 1]
                    /\ buffer' = [buffer EXCEPT ![t] =
                                    IF op[t] \in ReadOps THEN ZeroBuffer ELSE NoBuffer]
                    /\ UNCHANGED outcome
    /\ UNCHANGED << wrapVars, lifeVars, pureVars >>
    /\ UNCHANGED << tasks, drv, ud, op, result, wres, chunks, used, stale >>

\* WaitReturn with a single worker for all waits: the native ibwait of t
\* runs only when no other task's wait occupies the worker
WaitReturn_one_worker(t) ==
    /\ t \in tasks
    /\ pc[t] = "suspended"
    /\ wk[t] = "running"
    /\ \A t2 \in tasks \ {t} : wk[t2] # "running"
    /\ \E c \in Completions(op[t] \in ReadOps) :
         /\ (op[t] \in ReadOps /\ nreq[t] >= MaxChunks) => EndsRead(op[t], c)
         /\ gIbsta' = c.w
         /\ gIberr' = IF from_ibsta(c.w).err THEN c.e ELSE gIberr
         /\ gIbcntl' = c.n
         /\ chunks' = [chunks EXCEPT ![t] = Append(@, c)]
         /\ buffer' = [buffer EXCEPT ![t] = IF op[t] \in ReadOps THEN Stored(c) ELSE @]
         /\ wres' = [wres EXCEPT ![t] =
                       IF op[t] \in OldOps THEN wait_closure(c.w)
                       ELSE ibwait(c.w, c.asta, c.e, c.n, c.n)]
    /\ wk' = [wk EXCEPT ![t] = "returned"]
    /\ UNCHANGED << wrapVars, lifeVars, pureVars >>
    /\ UNCHANGED << tasks, drv, ud, op, pc, nreq, result, outcome,
                    used, waits, issueErr, stale >>

\* the native ibwait returns on the worker and the closure ends
WaitReturn(t) ==
    /\ t \in tasks
    /\ pc[t] = "suspended"
    /\ wk[t] = "running"
    /\ \E c \in Completions(op[t] \in ReadOps) :
         /\ (op[t] \in ReadOps /\ nreq[t] >= MaxChunks) => EndsRead(op[t], c)
         /\ gIbsta' = c.w
         /\ gIberr' = IF from_ibsta(c.w).err THEN c.e ELSE gIberr
         /\ gIbcntl' = c.n
         /\ chunks' = [chunks EXCEPT ![t] = Append(@, c)]
         /\ buffer' = [buffer EXCEPT ![t] = IF op[t] \in ReadOps THEN Stored(c) ELSE @]
         /\ wres' = [wres EXCEPT ![t] =
                       IF op[t] \in OldOps THEN wait_closure(c.w)
                       ELSE ibwait(c.w, c.asta, c.e, c.n, c.n)]
    /\ wk' = [wk EXCEPT ![t] = "returned"]
    /\ UNCHANGED << wrapVars, lifeVars, pureVars >>
    /\ UNCHANGED << tasks, drv, ud, op, pc, nreq, result, outcome,
                    used, waits, issueErr, stale >>

\* the runtime polls the future again after the closure has ended: the rest
\* of the loop turn, up to the next `.await` or the return
Resume(t) ==
    /\ t \in tasks
    /\ pc[t] = "suspended"
    /\ wk[t] = "returned"
    /\ wk' = [wk EXCEPT ![t] = "none"]
    /\ IF wres[t].kind = "JoinError"
       THEN /\ outcome' = [outcome EXCEPT ![t] = From_JoinError(wres[t])]
            /\ pc' = [pc EXCEPT ![t] = "done"]
            /\ UNCHANGED << result, used >>
       ELSE IF op[t] \in ReadOps
       THEN LET st == IF op[t] = "aread"
                      THEN aread_resume(wres[t], gIbsta, gIberr, gIbcntl, buffer[t], result[t])
                      ELSE hread_resume(wres[t], gIbcntl, buffer[t], result[t])
            IN /\ result' = [result EXCEPT ![t] = st.res]
               /\ used' = [used EXCEPT ![t] = IF st.cnt >= 0 THEN Append(@, st.cnt) ELSE @]
               /\ outcome' = [outcome EXCEPT ![t] = st.out]
               /\ pc' = [pc EXCEPT ![t] = st.next]
       ELSE /\ outcome' = [outcome EXCEPT ![t] =
                             IF op[t] = "awrite"
                             THEN awrite_resume(wres[t], gIbsta, gIberr, gIbcntl)
                             ELSE hwrite_resume(wres[t], gIbcntl)]
            /\ pc' = [pc EXCEPT ![t] = "done"]
            /\ UNCHANGED << result, used >>
    /\ buffer' = [buffer EXCEPT ![t] = NoBuffer]
    /\ UNCHANGED << wrapVars, lifeVars, pureVars >>
    /\ UNCHANGED << tasks, drv, ud, op, nreq, wres, gIbsta, gIberr,
                    gIbcntl, chunks, waits, issueErr, stale >>

\* one loop turn of InstrumentHandle::blocking_read: ibrd and the loop body
BlockingChunk(t) ==
    /\ t \in tasks
    /\ pc[t] = "loop"
    /\ op[t] = "bread"
    /\ \E c \in Completions(TRUE) :
         /\ (nreq[t] + 1 >= MaxChunks) => EndsRead(op[t], c)
         /\ gIbsta' = c.w
         /\ gIberr' = IF from_ibsta(c.w).err THEN c.e ELSE gIberr
         /\ gIbcntl' = c.n
         /\ chunks' = [chunks EXCEPT ![t] = Append(@, c)]
         /\ LET r == ibrd(c.w, c.e, c.n, c.n, BUFFER_SIZE)
                st == IF r.kind # "Ok" THEN Step("done", r, result[t], -1)
                      ELSE read_body(from_ibsta(r.status), r.n, Stored(c), result[t])
            IN /\ result' = [result EXCEPT ![t] = st.res]
               /\ used' = [used EXCEPT ![t] = IF st.cnt >= 0 THEN Append(@, st.cnt) ELSE @]
               /\ outcome' = [outcome EXCEPT ![t] = st.out]
               /\ pc' = [pc EXCEPT ![t] = st.next]
    /\ nreq' = [nreq EXCEPT ![t] = @ + 1]
    /\ UNCHANGED << wrapVars, lifeVars, pureVars >>
    /\ UNCHANGED << tasks, drv, ud, op, wk, buffer, wres, waits,
                    issueErr, stale >>

\* the closure given to spawn_blocking does not run to completion (it
\* panics, or the runtime cancels it): the JoinHandle resolves to a JoinError
WorkerFails(t) ==
    /\ t \in tasks
    /\ pc[t] = "suspended"
    /\ wk[t] = "running"
    /\ wk' = [wk EXCEPT ![t] = "returned"]
    /\ wres' = [wres EXCEPT ![t] = JoinError]
    /\ UNCHANGED << wrapVars, lifeVars, pureVars >>
    /\ UNCHANGED << tasks, drv, ud, op, pc, nreq, buffer, result, outcome, gIbsta,
                    gIberr, gIbcntl, chunks, used, waits, issueErr, stale >>

\* the caller drops the future while it is suspended in the wait: the
\* buffer, a local of the future, is freed; the closure keeps running
Cancel(t) ==
    /\ t \in tasks
    /\ pc[t] = "suspended"
    /\ pc' = [pc EXCEPT ![t] = "dropped"]
    /\ buffer' = [buffer EXCEPT ![t] = NoBuffer]
    /\ UNCHANGED << wrapVars, lifeVars, pureVars >>
    /\ UNCHANGED << tasks, drv, ud, op, wk, nreq, result, wres, outcome, gIbsta,
                    gIberr, gIbcntl, chunks, used, waits, issueErr, stale >>

\* the native ibwait of a dropped future returns; the driver has completed
\* the transfer on the buffer it was given, and nobody reads the result
OrphanReturn(t) ==
    /\ t \in tasks
    /\ pc[t] = "dropped"
    /\ wk[t] = "running"
    /\ wk' = [wk EXCEPT ![t] = "none"]
    /\ \E c \in Completions(op[t] \in ReadOps) :
         /\ gIbsta' = c.w
         /\ gIberr' = IF from_ibsta(c.w).err THEN c.e ELSE gIberr
         /\ gIbcntl' = c.n
    /\ stale' = (stale \/ op[t] \in ReadOps)
    /\ UNCHANGED << wrapVars, lifeVars, pureVars >>
    /\ UNCHANGED << tasks, drv, ud, op, pc, nreq, buffer, result, wres,
                    outcome, chunks, used, waits, issueErr >>

AsyncNext ==
    \/ \E t \in Tasks, o \in Ops : Start(t, o)
    \/ \E t \in Tasks : Issue(t)
    \/ \E t \in Tasks : WaitReturn(t)
    \/ \E t \in Tasks : Resume(t)
    \/ \E t \in Tasks : BlockingChunk(t)
    \/ \E t \in Tasks : Cancel(t)
    \/ \E t \in Tasks : OrphanReturn(t)

AsyncInit(ts, d, uds) ==
    /\ tasks = ts
    /\ drv = d
    /\ ud \in uds
    /\ op = [t \in Tasks |-> "aread"]
    /\ pc = [t \in Tasks |-> "idle"]
    /\ wk = [t \in Tasks |-> "none"]
    /\ nreq = [t \in Tasks |-> 0]
    /\ buffer = [t \in Tasks |-> NoBuffer]
    /\ result = [t \in Tasks |-> << >>]
    /\ wres = [t \in Tasks |-> NoRes]
    /\ outcome = [t \in Tasks |-> NoOutcome]
    /\ gIbsta = 0
    /\ gIberr = 0
    /\ gIbcntl = 0
    /\ chunks = [t \in Tasks |-> << >>]
    /\ used = [t \in Tasks |-> << >>]
    /\ waits = [t \in Tasks |-> 0]
    /\ issueErr = [t \in Tasks |-> FALSE]
    /\ stale = FALSE

vars == << asyncVars, globVars, wrapVars, lifeVars, pureVars >>

(***************************************************************************)
(* The traditional wrappers, called by one thread while the calls of other *)
(* threads overwrite the process-global variables.                         *)
(***************************************************************************)
Wrappers == {"ibonl", "ibrd", "ibwrt", "ibwait"}
WrapStatuses == {CMPL, CMPL + END, ERR + CMPL, ERR + TIMO + CMPL}
WrapErrs == {0, 6, 12}
WrapCounts == {0, 7, 500, 1025}

\* lowlevel::traditional::ibonl, and every wrapper of the same shape
\* (ibclr, ibpad, ...), on the status s of the native call
ibonl(s, e, cntl) ==
    IF from_ibsta(s).err
    THEN DriverError(s, current_thread_local_error(s, e, cntl))
    ELSE Success(<< >>, 0)

\* lowlevel::traditional::ibclr
ibclr(s, e, cntl) ==
    IF from_ibsta(s).err
    THEN DriverError(s, current_thread_local_error(s, e, cntl))
    ELSE Success(<< >>, 0)

\* lowlevel::traditional::ibwrt: the arguments of log::debug! contain
\* String::from_utf8(data.to_vec())?
ibwrt(s, e, c, cntl, debug, data) ==
    IF debug /\ data # "text" THEN ValueError
    ELSE IF from_ibsta(s).err
    THEN DriverError(s, current_thread_local_error(s, e, cntl))
    ELSE Success(<< >>, c)

\* the native call of the wrapper returns
NativeCall(k) ==
    /\ wpc = "idle"
    /\ wkind' = k
    /\ wpc' = "called"
    /\ wdata' \in IF k = "ibwrt" THEN {"text", "binary"} ELSE {"text"}
    /\ wdebug' \in IF k = "ibwrt" THEN BOOLEAN ELSE {FALSE}
    /\ \E s \in WrapStatuses, e \in WrapErrs, c \in WrapCounts :
         /\ from_ibsta(s).err \/ e = 0
         /\ wret' = s
         /\ tIberr' = e
         /\ tIbcntl' = c
         /\ gIbsta' = s
         /\ gIberr' = e
         /\ gIbcntl' = c
         /\ IF k = "ibwait"
            THEN /\ aIbsta' \in IF from_ibsta(s).err THEN {CMPL, ERR + CMPL} ELSE {CMPL}
                 /\ aIberr' = e
                 /\ aIbcntl' = c
            ELSE UNCHANGED << aIbsta, aIberr, aIbcntl >>
    /\ UNCHANGED << wout, asyncVars, lifeVars, pureVars >>

\* a native call of another thread returns
OtherCall ==
    /\ wpc = "called"
    /\ \E s \in WrapStatuses, e \in WrapErrs, c \in WrapCounts :
         /\ from_ibsta(s).err \/ e = 0
         /\ << s, e, c >> # << gIbsta, gIberr, gIbcntl >>
         /\ gIbsta' = s
         /\ gIberr' = e
         /\ gIbcntl' = c
    /\ UNCHANGED << wrapVars, asyncVars, lifeVars, pureVars >>

\* the wrapper inspects the status and builds its result
Decode ==
    /\ wpc = "called"
    /\ wpc' = "done"
    /\ wout' = CASE wkind = "ibonl" -> ibonl(wret, tIberr, gIbcntl)
                 [] wkind = "ibrd" -> ibrd(wret, tIberr, tIbcntl, gIbcntl, BUFFER_SIZE)
                 [] wkind = "ibwrt" -> ibwrt(wret, tIberr, tIbcntl, gIbcntl, wdebug, wdata)
                 [] wkind = "ibwait" -> ibwait(wret, aIbsta, aIberr, aIbcntl, gIbcntl)
    /\ UNCHANGED << wkind, wdata, wdebug, wret, tIberr, tIbcntl, aIbsta, aIberr,
                    aIbcntl, globVars, asyncVars, lifeVars, pureVars >>

WrapNext ==
    \/ \E k \in Wrappers : NativeCall(k)
    \/ OtherCall
    \/ Decode

WrapInit ==
    /\ wkind = "ibonl"
    /\ wpc = "idle"
    /\ wdata = "text"
    /\ wdebug = FALSE
    /\ wret = 0
    /\ tIberr = 0
    /\ tIbcntl = 0
    /\ aIbsta = 0
    /\ aIberr = 0
    /\ aIbcntl = 0
    /\ wout = NoOutcome

(***************************************************************************)
(* Instrument::open and the life of InstrumentHandle.                      *)
(***************************************************************************)
Handles == 1 .. MaxOpens

\* Instrument::open: ibdev, then ibclr, then the handle
open ==
    /\ nopen < MaxOpens
    /\ nopen' = nopen + 1
    /\ \/ \* ibdev returns a negative descriptor
          UNCHANGED << openUds, hstate, hud, unowned >>
       \/ \E u \in Uds \ openUds, clr \in {CMPL, ERR + CMPL} :
            /\ openUds' = openUds \cup {u}
            /\ IF ibclr(clr, 0, 0).kind = "Ok"
               THEN /\ hstate' = [hstate EXCEPT ![nopen + 1] = "live"]
                    /\ hud' = [hud EXCEPT ![nopen + 1] = u]
                    /\ UNCHANGED unowned
               ELSE /\ unowned' = unowned \cup {u}
                    /\ UNCHANGED << hstate, hud >>
    /\ UNCHANGED << hused, closes, badClose, asyncVars, globVars, wrapVars, pureVars >>

\* an operation called on a handle (&self): the handle stays as it is
use(h) ==
    /\ hstate[h] = "live"
    /\ ~ hused[h]
    /\ hused' = [hused EXCEPT ![h] = TRUE]
    /\ UNCHANGED << openUds, nopen, hstate, hud, closes, badClose, unowned,
                    asyncVars, globVars, wrapVars, pureVars >>

\* drop for a handle that could be copied: the handle stays live
drop_copy(h) ==
    /\ hstate[h] = "live"
    /\ closes[h] < 2
    /\ closes' = [closes EXCEPT ![h] = @ + 1]
    /\ badClose' = (badClose \/ hud[h] \notin openUds)
    /\ \E s \in {CMPL, ERR + CMPL} :
         openUds' = IF ibonl(s, 0, 0).kind = "Ok" THEN openUds \ {hud[h]} ELSE openUds
    /\ UNCHANGED << nopen, hstate, hud, hused, unowned, asyncVars, globVars, wrapVars, pureVars >>

\* Drop for InstrumentHandle: ibonl(self.ud, IbOnline::Close); an error is
\* printed.  The handle is gone afterwards.
drop(h) ==
    /\ hstate[h] = "live"
    /\ hstate' = [hstate EXCEPT ![h] = "dropped"]
    /\ closes' = [closes EXCEPT ![h] = @ + 1]
    /\ badClose' = (badClose \/ hud[h] \notin openUds)
    /\ \E s \in {CMPL, ERR + CMPL} :
         openUds' = IF ibonl(s, 0, 0).kind = "Ok" THEN openUds \ {hud[h]} ELSE openUds
    /\ UNCHANGED << nopen, hud, hused, unowned, asyncVars, globVars, wrapVars, pureVars >>

LifeNext ==
    \/ open
    \/ \E h \in Handles : use(h)
    \/ \E h \in Handles : drop(h)

LifeInit ==
    /\ openUds = {}
    /\ nopen = 0
    /\ hstate = [h \in Handles |-> "none"]
    /\ hud = [h \in Handles |-> -1]
    /\ hused = [h \in Handles |-> FALSE]
    /\ closes = [h \in Handles |-> 0]
    /\ badClose = FALSE
    /\ unowned = {}

\* no function of the pure part is applied
NoArg == [kind |-> "none"]
NoRet == [kind |-> "none"]
PureIdle ==
    /\ fn = "none"
    /\ arg = NoArg
    /\ ret = NoRet
    /\ calls = << >>

(***************************************************************************)
(* Addresses: PrimaryAddress, SecondaryAddress, Addr4882, and the open     *)
(* paths that build them.                                                  *)
(***************************************************************************)
\* inputs reach up to MaxPadInput / MaxSadInput and down to -MaxNegInput
MaxPadInput == 33
MaxSadInput == 130
MaxNegInput == 2

\* Ok(v) of the constructors
OkVal(v) == [kind |-> "Ok", val |-> v]
ErrValue == [kind |-> "ValueError", val |-> 0]

\* PrimaryAddress::new with the upper limit off by one
PrimaryAddress_new_31(pad) ==
    IF pad >= 0 /\ pad <= 31 THEN OkVal(pad) ELSE ErrValue

\* PrimaryAddress::new
PrimaryAddress_new(pad) ==
    IF pad >= 0 /\ pad <= 30 THEN OkVal(pad) ELSE ErrValue

\* SecondaryAddress::new without the 0x60 added to 1..30
SecondaryAddress_new_nobias(sad) ==
    IF sad < 0 THEN ErrValue
    ELSE IF sad <= 30 THEN OkVal(sad)
    ELSE IF sad >= 96 /\ sad <= 126 THEN OkVal(sad)
    ELSE ErrValue

\* SecondaryAddress::new: 0x60 = 96, 0x7e = 126
SecondaryAddress_new(sad) ==
    IF sad < 0 THEN ErrValue
    ELSE IF sad = 0 THEN OkVal(sad)
    ELSE IF sad <= 30 THEN OkVal(sad + 96)
    ELSE IF sad >= 96 /\ sad <= 126 THEN OkVal(sad)
    ELSE ErrValue

\* SecondaryAddress::default
SecondaryAddress_default == OkVal(0)

\* c_int -> u16 by try_into()?
ToU16(x) == IF x >= 0 /\ x <= 65535 THEN OkVal(x) ELSE ErrValue

\* MakeAddr that does not shift the secondary address
MakeAddr_noshift(pad, sad) == (pad % 256) + (sad % 256)

\* MakeAddr on u16: (pad & 0xff) | ((sad << 8) & 0xff00)
MakeAddr(pad, sad) == (pad % 256) + (((sad * 256) % 65536) \div 256) * 256

\* GetPAD: address & 0xff
GetPAD(address) == address % 256

\* GetSAD: (address >> 8) & 0xff
GetSAD(address) == (address \div 256) % 256

\* Addr4882::new on the values the two constructors stored
Addr4882_new(pad, sad) ==
    IF ToU16(pad).kind # "Ok" \/ ToU16(sad).kind # "Ok" THEN ErrValue
    ELSE OkVal(MakeAddr(ToU16(pad).val, ToU16(sad).val))

\* Addr4882::primary_address
primary_address(addr) == PrimaryAddress_new(GetPAD(addr))

\* Addr4882::secondary_address
secondary_address(addr) == SecondaryAddress_new(GetSAD(addr))

\* the native ibdev call with the address it is given
IbdevCall(pad, sad) == [name |-> "ibdev", pad |-> pad, sad |-> sad]

\* lowlevel::traditional::ibdev after the native call returned ud, with the
\* thread-local status tsta and error terr
ibdev(d, tsta, terr, cntl) ==
    IF d >= 0 THEN Success(<< >>, d)
    ELSE DriverError(tsta, current_thread_local_error(tsta, terr, cntl))

\* what the native ibdev may answer: a descriptor, or -1 with ERR and EDVR
IbdevAnswers == { << 0, CMPL, 0 >>, << -1, ERR + CMPL, 0 >> }

PadInputs == (0 - MaxNegInput) .. MaxPadInput
SadInputs == (0 - MaxNegInput) .. MaxSadInput

\* PrimaryAddress::new(p)
PrimaryNew ==
    /\ fn = "none" /\ arg.kind = "addr"
    /\ fn' = "PrimaryAddress::new"
    /\ ret' = PrimaryAddress_new(arg.p)
    /\ UNCHANGED << arg, calls, asyncVars, globVars, wrapVars, lifeVars >>

\* SecondaryAddress::new(s)
SecondaryNew ==
    /\ fn = "none" /\ arg.kind = "addr"
    /\ fn' = "SecondaryAddress::new"
    /\ ret' = SecondaryAddress_new(arg.s)
    /\ UNCHANGED << arg, calls, asyncVars, globVars, wrapVars, lifeVars >>

\* Addr4882::new(PrimaryAddress::new(p)?, SecondaryAddress::new(s)?)? and
\* then primary_address() and secondary_address() of the result
PackUnpack ==
    /\ fn = "none" /\ arg.kind = "addr"
    /\ fn' = "Addr4882"
    /\ LET pa == PrimaryAddress_new(arg.p)
           sa == SecondaryAddress_new(arg.s)
           a == IF pa.kind = "Ok" /\ sa.kind = "Ok"
                THEN Addr4882_new(pa.val, sa.val) ELSE ErrValue
       IN ret' = IF a.kind # "Ok" THEN [kind |-> "ValueError"]
                 ELSE [kind |-> "Ok", addr |-> a.val,
                       pad |-> primary_address(a.val),
                       sad |-> secondary_address(a.val)]
    /\ UNCHANGED << arg, calls, asyncVars, globVars, wrapVars, lifeVars >>

\* ibdev(board, PrimaryAddress::new(p)?, SecondaryAddress::new(s)?, ..): the
\* stored values are handed to the native call
DevOpen ==
    /\ fn = "none" /\ arg.kind = "addr"
    /\ fn' = "ibdev"
    /\ LET pa == PrimaryAddress_new(arg.p)
           sa == SecondaryAddress_new(arg.s)
       IN IF pa.kind # "Ok" \/ sa.kind # "Ok"
          THEN ret' = ValueError /\ UNCHANGED calls
          ELSE /\ calls' = Append(calls, IbdevCall(pa.val, sa.val))
               /\ \E x \in IbdevAnswers : ret' = ibdev(x[1], x[2], x[3], 0)
    /\ UNCHANGED << arg, asyncVars, globVars, wrapVars, lifeVars >>

\* open of lib.rs on "GPIB<board>::<p>::INSTR": the arguments of ibdev are
\* evaluated, PrimaryAddress::new(p)? first, before the call
lib_open ==
    /\ fn = "none" /\ arg.kind = "addr"
    /\ fn' = "open"
    /\ LET pa == PrimaryAddress_new(arg.p)
       IN IF pa.kind # "Ok"
          THEN ret' = ValueError /\ UNCHANGED calls
          ELSE /\ calls' = Append(calls, IbdevCall(pa.val, SecondaryAddress_default.val))
               /\ \E x \in IbdevAnswers : ret' = ibdev(x[1], x[2], x[3], 0)
    /\ UNCHANGED << arg, asyncVars, globVars, wrapVars, lifeVars >>

\* Instrument::from_visa_string on "GPIB<board>::<p>::INSTR", and
\* Instrument::open on the instrument it gave: ibdev, then ibclr
visa_open ==
    /\ fn = "none" /\ arg.kind = "addr"
    /\ fn' = "from_visa_string"
    /\ LET pa == PrimaryAddress_new(arg.p)
           a == IF pa.kind = "Ok"
                THEN Addr4882_new(pa.val, SecondaryAddress_default.val) ELSE ErrValue
       IN IF a.kind # "Ok"
          THEN ret' = ValueError /\ UNCHANGED calls
          ELSE LET p2 == primary_address(a.val)
                   s2 == secondary_address(a.val)
               IN IF p2.kind # "Ok" \/ s2.kind # "Ok"
                  THEN ret' = ValueError /\ UNCHANGED calls
                  ELSE \E x \in IbdevAnswers, clr \in {CMPL, ERR + CMPL} :
                         LET r == ibdev(x[1], x[2], x[3], 0)
                         IN IF r.kind # "Ok"
                            THEN /\ ret' = r
                                 /\ calls' = Append(calls, IbdevCall(p2.val, s2.val))
                            ELSE /\ ret' = IF ibclr(clr, 0, 0).kind = "Ok" THEN r
                                           ELSE ibclr(clr, 0, 0)
                                 /\ calls' = calls \o << IbdevCall(p2.val, s2.val),
                                                         [name |-> "ibclr", pad |-> 0, sad |-> 0] >>
    /\ UNCHANGED << arg, asyncVars, globVars, wrapVars, lifeVars >>

AddrNext ==
    \/ PrimaryNew
    \/ SecondaryNew
    \/ PackUnpack
    \/ DevOpen
    \/ lib_open
    \/ visa_open

\* every pair of a primary and a secondary input
AddrInit ==
    /\ fn = "none"
    /\ arg \in [kind : {"addr"}, p : PadInputs, s : SadInputs]
    /\ ret = NoRet
    /\ calls = << >>

(***************************************************************************)
(* The decoders on their own: from_iberr on every code, from_ibsta and     *)
(* as_ibsta on every status word and every combination of flags.           *)
(***************************************************************************)
\* largest iberr code given to the decoder, besides 99
MaxErrInput == 30
\* largest status word given to from_ibsta
MaxIbsta == 65536

ErrInputs == ((0 - MaxNegInput) .. MaxErrInput) \cup {99}
CntlInputs == {0, 1, 7}

\* IbError::from_iberr(arg.e) while ibcntl is arg.c
FromIberr ==
    /\ fn = "none"
    /\ arg.kind = "iberr"
    /\ fn' = "from_iberr"
    /\ ret' = from_iberr(arg.e, arg.c)
    /\ UNCHANGED << arg, calls, asyncVars, globVars, wrapVars, lifeVars >>

ErrInit ==
    /\ fn = "none"
    /\ arg \in [kind : {"iberr"}, e : ErrInputs, c : CntlInputs]
    /\ ret = NoRet
    /\ calls = << >>

\* the fields of IbStatus
FlagNames ==
    {"dcas", "dtas", "lacs", "tacs", "atn", "cic", "rem", "lok",
     "cmpl", "event", "spoll", "rqs", "srqi", "end", "timo", "err"}

\* IbStatus::from_ibsta(arg.x).as_ibsta()
FromThenAs ==
    /\ fn = "none"
    /\ arg.kind = "ibsta"
    /\ fn' = "from_ibsta.as_ibsta"
    /\ ret' = [kind |-> "ibsta", x |-> as_ibsta(from_ibsta(arg.x))]
    /\ UNCHANGED << arg, calls, asyncVars, globVars, wrapVars, lifeVars >>

\* IbStatus::from_ibsta(arg.s.as_ibsta())
AsThenFrom ==
    /\ fn = "none"
    /\ arg.kind = "flags"
    /\ fn' = "as_ibsta.from_ibsta"
    /\ ret' = [kind |-> "flags", x |-> as_ibsta(arg.s), s |-> from_ibsta(as_ibsta(arg.s))]
    /\ UNCHANGED << arg, calls, asyncVars, globVars, wrapVars, lifeVars >>

StatusNext ==
    \/ FromThenAs
    \/ AsThenFrom

StatusInit ==
    /\ fn = "none"
    /\ \/ arg \in [kind : {"ibsta"}, x : 0 .. MaxIbsta]
       \/ arg \in [kind : {"flags"}, s : [FlagNames -> BOOLEAN]]
    /\ ret = NoRet
    /\ calls = << >>

(***************************************************************************)
(* The multidevice operations on lists of addresses (multidevice.rs) and   *)
(* Board::find_listeners.  The caller's list is the first n of the primary *)
(* addresses, upwards from 0 or downwards.                                 *)
(***************************************************************************)
\* longest list of addresses a caller passes
MaxPads == 31
\* linux_gpib_sys::NOADDR, 0xFFFF
NOADDR == 65535
\* length of the result array of FindLstn
ResultLen == 31

\* the caller's Vec<Addr4882>
AddrList(n, order) ==
    [i \in 1 .. n |->
        MakeAddr(IF order = "up" THEN (i - 1) % 31 ELSE (n - i) % 31, 0)]

\* addresses.iter().map(|a| a.addr).collect(), then push(NOADDR)
Terminated(addresses) == Append(addresses, NOADDR)

\* the listeners the driver writes for a pad list: the devices of the list
\* at their primary address, then devices at secondary addresses
Listener(padList, i) ==
    IF i <= Len(padList)
    THEN padList[i]
    ELSE MakeAddr(GetPAD(padList[((i - 1) % Len(padList)) + 1]), 96 + ((i - 1) \div Len(padList)))
Found(padList, k) == [i \in 1 .. k |-> Listener(padList, i)]

\* what a list operation leaves in the calling thread: ThreadIbsta,
\* ThreadIberr and ThreadIbcnt / ThreadIbcntl (an index or a count)
ListAnswers(counts) ==
    [w : {CMPL, ERR + CMPL}, e : {4, 9, 20}, c : counts]

\* the end of a list operation that returns (): DevClearList, EnableLocal,
\* EnableRemote, PPollUnconfig, ResetSys, SendList, SetRWLS, TriggerList
\* (and TestSys, whose Ok carries the results array)
list_result(w, e) ==
    IF current_thread_local_status(w).err
    THEN DriverError(w, current_thread_local_error(w, e, 0))
    ELSE Success(<< >>, 0)

\* FindAllLstn's pad list with pad 0 included
AllPads_from0 == [i \in 1 .. 31 |-> MakeAddr(i - 1, SecondaryAddress_default.val)]

\* (1..31).map(|pad| Addr4882::new(PrimaryAddress::new(pad)?, SecondaryAddress::default()))
AllPads == [i \in 1 .. 30 |-> MakeAddr(i, SecondaryAddress_default.val)]

\* FindLstn after the native call wrote the first k listeners and left k in
\* ThreadIbcntl: the 31-entry array, truncated to k
FindLstn(padList, w, e, k) ==
    LET written == [i \in 1 .. ResultLen |->
                      IF i <= k THEN Listener(padList, i) ELSE NOADDR]
    IN IF current_thread_local_status(w).err
       THEN DriverError(w, current_thread_local_error(w, e, 0))
       ELSE IF k < 0 THEN ValueError
       ELSE Success(SubSeq(written, 1, Min(k, ResultLen)), 0)

\* FindRQS that takes the first address when the index is past the end
FindRQS_clamped(addresses, w, e, index) ==
    IF current_thread_local_status(w).err
    THEN DriverError(w, current_thread_local_error(w, e, 0))
    ELSE IF index < 0 \/ addresses = << >> THEN ValueError
    ELSE Success(<< addresses[Min(index, Len(addresses) - 1) + 1] >>, 0)

\* FindRQS after the native call left index in ThreadIbcnt (0-based)
FindRQS(addresses, w, e, index) ==
    IF current_thread_local_status(w).err
    THEN DriverError(w, current_thread_local_error(w, e, 0))
    ELSE IF index < 0 THEN ValueError
    ELSE IF index >= Len(addresses) THEN ValueError
    ELSE Success(<< addresses[index + 1] >>, 0)

\* Board::find_listeners: each address with a clone of the board
find_listeners(board, r) ==
    IF r.kind = "Ok"
    THEN [r EXCEPT !.val = [i \in 1 .. Len(r.val) |-> [board |-> board, addr |-> r.val[i]]]]
    ELSE r

\* the native call of a list operation and what the driver answered
ListCall(name, list, limit, a) ==
    [name |-> name, list |-> list, limit |-> limit, w |-> a.w, c |-> a.c]

\* the process died or went on with corrupted memory: the native FindLstn
\* wrote past the end of the result array
Crash == [Panic EXCEPT !.kind = "Crash"]

SimpleListOps ==
    {"DevClearList", "EnableLocal", "EnableRemote", "PPollUnconfig", "ResetSys",
     "SendList", "SetRWLS", "TestSys", "TriggerList"}

\* one of the list operations without a count
ListOp(name) ==
    /\ fn = "none"
    /\ arg.kind = "list"
    /\ \E a \in ListAnswers({0}) :
          /\ calls' = << ListCall(name, Terminated(AddrList(arg.n, arg.order)), 0, a) >>
          /\ ret' = list_result(a.w, a.e)
    /\ fn' = name
    /\ UNCHANGED << arg, asyncVars, globVars, wrapVars, lifeVars >>

\* FindLstn on a pad list: the limit handed to the driver is the length of
\* the terminated list, and the driver writes at most that many listeners
FindLstn_run(name, board, padList) ==
    /\ fn = "none"
    /\ LET sent == Terminated(padList)
       IN \E a \in ListAnswers(0 .. Len(sent)) :
             /\ a.c <= (IF padList = << >> THEN 0 ELSE Len(sent))
             /\ calls' = << ListCall("FindLstn", sent, Len(sent), a) >>
             /\ LET r == FindLstn(padList, a.w, a.e, a.c)
                    out == IF name = "find_listeners" THEN find_listeners(board, r) ELSE r
                IN IF a.c > ResultLen
                   THEN ret' \in {out, Crash}
                   ELSE ret' = out
    /\ fn' = name
    /\ UNCHANGED << arg, asyncVars, globVars, wrapVars, lifeVars >>

\* FindLstn on the caller's list
FindLstn_call ==
    /\ arg.kind = "list"
    /\ FindLstn_run("FindLstn", arg.b, AddrList(arg.n, arg.order))

\* FindAllLstn: FindLstn on the pads 1 to 30
FindAllLstn ==
    /\ arg.kind = "list"
    /\ FindLstn_run("FindAllLstn", arg.b, AllPads)

\* Board::find_listeners
Board_find_listeners ==
    /\ arg.kind = "list"
    /\ FindLstn_run("find_listeners", arg.b, AllPads)

\* FindRQS on the caller's list
FindRQS_call ==
    /\ fn = "none"
    /\ arg.kind = "list"
    /\ LET addresses == AddrList(arg.n, arg.order)
       IN \E a \in ListAnswers(-1 .. arg.n + 1) :
             /\ calls' = << ListCall("FindRQS", Terminated(addresses), 0, a) >>
             /\ ret' = FindRQS(addresses, a.w, a.e, a.c)
    /\ fn' = "FindRQS"
    /\ UNCHANGED << arg, asyncVars, globVars, wrapVars, lifeVars >>

ListNext ==
    \/ \E name \in SimpleListOps : ListOp(name)
    \/ FindLstn_call
    \/ FindAllLstn
    \/ Board_find_listeners
    \/ FindRQS_call

ListInit ==
    /\ fn = "none"
    /\ arg \in [kind : {"list"}, n : 0 .. MaxPads, order : {"up", "down"}, b : 0 .. 1]
    /\ ret = NoRet
    /\ calls = << >>

(***************************************************************************)
(* One invocation of a synchronous traditional wrapper                     *)
(* (lowlevel/traditional.rs), with the native calls it makes.              *)
(***************************************************************************)
\* the wrappers that build a CString from a &str or a &Path before the call
NameWrappers == {"ibbna", "ibfind", "ibrdf", "ibwrtf"}
\* the wrappers that return a descriptor
OpenWrappers == {"ibdev", "ibfind"}
SyncWrappers ==
    {"ibask", "ibbna", "ibcac", "ibclr", "ibcmd", "ibconfig", "ibdev", "ibeos",
     "ibeot", "ibevent", "ibfind", "ibgts", "ibist", "iblines", "ibln", "ibloc",
     "ibonl", "ibpad", "ibpct", "ibppc", "ibrd", "ibrdf", "ibrpp", "ibrsc",
     "ibrsp", "ibrsv", "ibrsv2", "ibsad", "ibsic", "ibspb", "ibsre", "ibstop",
     "ibtmo", "ibtrg", "ibvers", "ibwrt", "ibwrtf"}

\* what the native call returns and leaves in the calling thread: the
\* descriptor (ibdev, ibfind), ThreadIbsta and ThreadIberr
SyncAnswers == [d : -2 .. MaxUd, w : {CMPL, ERR + CMPL}, e : {0, 2, 9}]

\* CString::new(name)? fails: the name holds a NUL byte
NameFails(w, name) == w \in NameWrappers /\ name = "nul"

\* native calls of a wrapper that calls again when the status has ERR
sync_calls_again(w, name, a) ==
    IF NameFails(w, name) THEN << >>
    ELSE IF from_ibsta(a.w).err
    THEN << [name |-> w, d |-> a.d, w |-> a.w, e |-> a.e],
            [name |-> w, d |-> a.d, w |-> a.w, e |-> a.e] >>
    ELSE << [name |-> w, d |-> a.d, w |-> a.w, e |-> a.e] >>

\* the native calls one invocation of the wrapper makes
sync_calls(w, name, a) ==
    IF NameFails(w, name) THEN << >>
    ELSE << [name |-> w, d |-> a.d, w |-> a.w, e |-> a.e] >>

\* what the wrapper returns: ibdev and ibfind test the descriptor, ibvers
\* tests nothing, every other wrapper tests status.err
sync_result(w, name, a) ==
    IF NameFails(w, name) THEN ValueError
    ELSE IF w \in OpenWrappers THEN ibdev(a.d, a.w, a.e, 0)
    ELSE IF w = "ibvers" THEN Success(<< >>, 0)
    ELSE IF w = "ibrd" THEN ibrd(a.w, a.e, 0, 0, BUFFER_SIZE)
    ELSE IF w = "ibwrt" THEN ibwrt(a.w, a.e, 0, 0, FALSE, "text")
    ELSE ibonl(a.w, a.e, 0)

\* a thread calls the wrapper w
SyncCall(w) ==
    /\ fn = "none"
    /\ arg.kind = "sync"
    /\ fn' = w
    /\ \E a \in SyncAnswers :
          /\ calls' = sync_calls(w, arg.name, a)
          /\ ret' = sync_result(w, arg.name, a)
    /\ UNCHANGED << arg, asyncVars, globVars, wrapVars, lifeVars >>

\* lowlevel::traditional::ibdev
ibdev_call ==
    /\ arg.kind = "sync"
    /\ SyncCall("ibdev")

\* lowlevel::traditional::ibfind
ibfind_call ==
    /\ arg.kind = "sync"
    /\ SyncCall("ibfind")

OpenNext ==
    \/ ibdev_call
    \/ ibfind_call

\* every wrapper, with the asynchronous operations of instrument.rs and
\* asynchronous.rs beside it
RetryNext ==
    \/ \E w \in SyncWrappers : SyncCall(w)
    \/ AsyncNext

\* the descriptor and the name given to the wrapper
SyncInit ==
    /\ fn = "none"
    /\ arg \in [kind : {"sync"}, ud : 0 .. MaxUd, name : {"gpib0", "nul"}]
    /\ ret = NoRet
    /\ calls = << >>

(***************************************************************************)
(* VISA strings (instrument.rs).  A string is the sequence of its          *)
(* characters.                                                             *)
(***************************************************************************)
\* largest board index of an Instrument
MaxBoard == 12

DigitChars == << "0", "1", "2", "3", "4", "5", "6", "7", "8", "9" >>
IsDigit(c) == \E d \in 1 .. 10 : DigitChars[d] = c
DigitVal(c) == (CHOOSE d \in 1 .. 10 : DigitChars[d] = c) - 1

\* format!("{}", n) of a c_int
RECURSIVE FmtNat(_)
FmtNat(n) ==
    IF n < 10 THEN << DigitChars[n + 1] >>
    ELSE Append(FmtNat(n \div 10), DigitChars[(n % 10) + 1])
FmtInt(n) == IF n < 0 THEN << "-" >> \o FmtNat(0 - n) ELSE FmtNat(n)

\* Instrument::visa_string: format!("GPIB{}::{}::INSTR", board_number, addr.pad())
visa_string(board, addr) ==
    << "G", "P", "I", "B" >> \o FmtInt(board) \o << ":", ":" >>
        \o FmtInt(GetPAD(addr)) \o << ":", ":", "I", "N", "S", "T", "R" >>

\* address.split("::"): the pieces between the separators, cur being the
\* piece under way
RECURSIVE split(_, _)
split(str, cur) ==
    IF str = << >> THEN << cur >>
    ELSE IF Len(str) >= 2 /\ str[1] = ":" /\ str[2] = ":"
    THEN << cur >> \o split(SubSeq(str, 3, Len(str)), << >>)
    ELSE split(Tail(str), Append(cur, str[1]))

RECURSIVE NatVal(_)
NatVal(digits) ==
    IF digits = << >> THEN 0
    ELSE 10 * NatVal(SubSeq(digits, 1, Len(digits) - 1)) + DigitVal(digits[Len(digits)])

\* i32::from_str_radix that reads the first digit only
from_str_radix_first(str) ==
    LET body == IF str # << >> /\ str[1] \in {"+", "-"} THEN Tail(str) ELSE str
    IN IF body = << >> \/ \E i \in 1 .. Len(body) : ~ IsDigit(body[i])
       THEN ErrValue
       ELSE OkVal(IF str[1] = "-" THEN 0 - DigitVal(body[1]) ELSE DigitVal(body[1]))

\* i32::from_str_radix(str, 10): an optional sign, then digits only, and a
\* value that fits i32
from_str_radix(str) ==
    LET body == IF str # << >> /\ str[1] \in {"+", "-"} THEN Tail(str) ELSE str
    IN IF body = << >> \/ \E i \in 1 .. Len(body) : ~ IsDigit(body[i])
       THEN ErrValue
       ELSE LET v == IF str[1] = "-" THEN 0 - NatVal(body) ELSE NatVal(body)
            IN IF v > 2147483647 \/ v < (0 - 2147483647) - 1 THEN ErrValue ELSE OkVal(v)

\* v[0].starts_with("GPIB")
starts_with_GPIB(str) ==
    Len(str) >= 4 /\ SubSeq(str, 1, 4) = << "G", "P", "I", "B" >>

\* Instrument::from_visa_string
from_visa_string(address) ==
    LET v == split(address, << >>)
    IN IF Len(v) < 2 THEN ErrValue
       ELSE IF ~ starts_with_GPIB(v[1]) THEN ErrValue
       ELSE LET board_num == from_str_radix(SubSeq(v[1], 5, Len(v[1])))
                primary == from_str_radix(v[2])
            IN IF board_num.kind # "Ok" \/ primary.kind # "Ok"
               THEN ErrValue
               ELSE LET pa == PrimaryAddress_new(primary.val)
                        a == IF pa.kind = "Ok"
                             THEN Addr4882_new(pa.val, SecondaryAddress_default.val)
                             ELSE ErrValue
                    IN IF a.kind # "Ok" THEN ErrValue
                       ELSE [kind |-> "Ok", board |-> board_num.val, addr |-> a.val]

\* what a parse gave, with the string the parsed Instrument serializes to
Parsed(text, r) ==
    IF r.kind = "Ok"
    THEN [kind |-> "Ok", text |-> text, board |-> r.board, pad |-> GetPAD(r.addr),
          again |-> visa_string(r.board, r.addr)]
    ELSE [kind |-> r.kind, text |-> text]

\* visa_string of the Instrument (arg.b, arg.p), then from_visa_string
VisaRoundTrip ==
    /\ fn = "none"
    /\ arg.kind = "visa"
    /\ fn' = "visa_string.from_visa_string"
    /\ LET text == visa_string(arg.b, MakeAddr(arg.p, SecondaryAddress_default.val))
       IN ret' = Parsed(text, from_visa_string(text))
    /\ UNCHANGED << arg, calls, asyncVars, globVars, wrapVars, lifeVars >>

\* from_visa_string of a given string, then visa_string
VisaParse ==
    /\ fn = "none"
    /\ arg.kind = "text"
    /\ fn' = "from_visa_string.visa_string"
    /\ ret' = Parsed(arg.s, from_visa_string(arg.s))
    /\ UNCHANGED << arg, calls, asyncVars, globVars, wrapVars, lifeVars >>

VisaNext ==
    \/ VisaRoundTrip
    \/ VisaParse

\* "GPIB0::1::INSTR", "GPIB0::1", "GPIB+0::01::INSTR", "GPIB0", "GPIB::1::INSTR",
\* "GPIB0:1::INSTR", "USB0::1::INSTR", "GPIB0::31::INSTR"
VisaTexts ==
    { << "G", "P", "I", "B", "0", ":", ":", "1", ":", ":", "I", "N", "S", "T", "R" >>,
      << "G", "P", "I", "B", "0", ":", ":", "1" >>,
      << "G", "P", "I", "B", "+", "0", ":", ":", "0", "1", ":", ":", "I", "N", "S", "T", "R" >>,
      << "G", "P", "I", "B", "0" >>,
      << "G", "P", "I", "B", ":", ":", "1", ":", ":", "I", "N", "S", "T", "R" >>,
      << "G", "P", "I", "B", "0", ":", "1", ":", ":", "I", "N", "S", "T", "R" >>,
      << "U", "S", "B", "0", ":", ":", "1", ":", ":", "I", "N", "S", "T", "R" >>,
      << "G", "P", "I", "B", "0", ":", ":", "3", "1", ":", ":", "I", "N", "S", "T", "R" >> }

VisaInit ==
    /\ fn = "none"
    /\ \/ arg \in [kind : {"visa"}, b : (0 - MaxNegInput) .. MaxBoard, p : 0 .. MaxPadInput]
       \/ arg \in [kind : {"text"}, s : VisaTexts]
    /\ ret = NoRet
    /\ calls = << >>

(***************************************************************************)
(* Board::clear_devices and Board::send_list (instrument.rs).              *)
(***************************************************************************)
\* the longest list of instruments given to a board
MaxInstruments == 3

\* the instruments of the boards bs, at the addresses of AddrList
Instruments(bs, order) ==
    [i \in 1 .. Len(bs) |-> [board |-> bs[i], addr |-> AddrList(Len(bs), order)[i]]]

\* the test that looks at the first instrument of the list only
any_other_board_first(instruments, board_number) ==
    instruments # << >> /\ instruments[1].board # board_number

\* instruments.iter().any(|instr| instr.board.board_number != self.board_number)
any_other_board(instruments, board_number) ==
    \E i \in 1 .. Len(instruments) : instruments[i].board # board_number

\* instruments.iter().map(|instr| instr.addr).collect()
address_list(instruments) == [i \in 1 .. Len(instruments) |-> instruments[i].addr]

\* the native call of a list operation of a board
BoardCall(name, board, list, a) ==
    [name |-> name, board |-> board, list |-> list, w |-> a.w]

\* Board::clear_devices (native = "DevClearList") and Board::send_list
\* (native = "SendList") on the board arg.b
Board_list(name, native) ==
    /\ fn = "none"
    /\ LET instruments == Instruments(arg.boards, arg.order)
       IN IF any_other_board(instruments, arg.b)
          THEN /\ ret' = ValueError
               /\ calls' = << >>
          ELSE \E a \in ListAnswers({0}) :
                  /\ calls' = << BoardCall(native, arg.b,
                                           Terminated(address_list(instruments)), a) >>
                  /\ ret' = list_result(a.w, a.e)
    /\ fn' = name
    /\ UNCHANGED << arg, asyncVars, globVars, wrapVars, lifeVars >>

clear_devices ==
    /\ arg.kind = "instruments"
    /\ Board_list("clear_devices", "DevClearList")

send_list ==
    /\ arg.kind = "instruments"
    /\ Board_list("send_list", "SendList")

BoardNext ==
    \/ clear_devices
    \/ send_list

BoardLists == UNION { [1 .. n -> 0 .. 1] : n \in 0 .. MaxInstruments }

BoardInit ==
    /\ fn = "none"
    /\ arg \in [kind : {"instruments"}, b : 0 .. 1, boards : BoardLists,
                order : {"up", "down"}]
    /\ ret = NoRet
    /\ calls = << >>

(***************************************************************************)
(* The query operations (instrument.rs): a write, then a read.  fn is the  *)
(* query that task 1 runs, calls holds the result of its write once the    *)
(* read has begun, ret is what the query returned.                         *)
(***************************************************************************)
QueryApis == {"query", "blocking_query", "Instrument_query"}

\* the write and the read that a query is made of
WriteOf(api) ==
    CASE api = "query" -> "hwrite"
      [] api = "blocking_query" -> "bwrite"
      [] api = "Instrument_query" -> "send"
ReadOf(api) ==
    CASE api = "query" -> "hread"
      [] api = "blocking_query" -> "bread"
      [] api = "Instrument_query" -> "receive"

\* multidevice::Send and multidevice::Receive on the thread-local status w
\* and error e that the native call left
Send(w, e) ==
    IF current_thread_local_status(w).err
    THEN DriverError(w, current_thread_local_error(w, e, 0))
    ELSE Success(<< >>, 0)
Receive(w, e) ==
    IF current_thread_local_status(w).err
    THEN DriverError(w, current_thread_local_error(w, e, 0))
    ELSE Success(<< >>, 0)

\* a query is called: its write begins
query_start(t, api) ==
    /\ t \in tasks
    /\ fn = "none"
    /\ arg.kind = "query"
    /\ pc[t] = "idle"
    /\ fn' = api
    /\ op' = [op EXCEPT ![t] = WriteOf(api)]
    /\ pc' = [pc EXCEPT ![t] = "loop"]
    /\ UNCHANGED << arg, ret, calls, wrapVars, lifeVars, globVars >>
    /\ UNCHANGED << tasks, drv, ud, wk, nreq, buffer, result, wres, outcome,
                    chunks, used, waits, issueErr, stale >>

\* InstrumentHandle::blocking_write: ibwrt on the str given, which is UTF-8
blocking_write(t) ==
    /\ t \in tasks
    /\ pc[t] = "loop"
    /\ op[t] = "bwrite"
    /\ \E c \in Completions(FALSE), debug \in BOOLEAN :
         /\ gIbsta' = c.w
         /\ gIberr' = IF from_ibsta(c.w).err THEN c.e ELSE gIberr
         /\ gIbcntl' = c.n
         /\ LET r == ibwrt(c.w, c.e, c.n, c.n, debug, "text")
            IN outcome' = [outcome EXCEPT ![t] =
                             IF r.kind = "Ok" THEN Success(<< >>, 0) ELSE r]
    /\ nreq' = [nreq EXCEPT ![t] = @ + 1]
    /\ pc' = [pc EXCEPT ![t] = "done"]
    /\ UNCHANGED << wrapVars, lifeVars, pureVars >>
    /\ UNCHANGED << tasks, drv, ud, op, wk, buffer, result, wres, chunks, used,
                    waits, issueErr, stale >>

\* Instrument::send: multidevice::Send
send(t) ==
    /\ t \in tasks
    /\ pc[t] = "loop"
    /\ op[t] = "send"
    /\ \E c \in Completions(FALSE) :
         /\ gIbsta' = c.w
         /\ gIberr' = IF from_ibsta(c.w).err THEN c.e ELSE gIberr
         /\ gIbcntl' = c.n
         /\ outcome' = [outcome EXCEPT ![t] = Send(c.w, c.e)]
    /\ nreq' = [nreq EXCEPT ![t] = @ + 1]
    /\ pc' = [pc EXCEPT ![t] = "done"]
    /\ UNCHANGED << wrapVars, lifeVars, pureVars >>
    /\ UNCHANGED << tasks, drv, ud, op, wk, buffer, result, wres, chunks, used,
                    waits, issueErr, stale >>

\* one loop turn of Instrument::receive: multidevice::Receive and the loop
\* body; the pair (status, n_read) that the loop takes from the call is the
\* status and the count that the native call left
receive(t) ==
    /\ t \in tasks
    /\ pc[t] = "loop"
    /\ op[t] = "receive"
    /\ \E c \in Completions(TRUE) :
         /\ (nreq[t] + 1 >= MaxChunks) => EndsRead("bread", c)
         /\ gIbsta' = c.w
         /\ gIberr' = IF from_ibsta(c.w).err THEN c.e ELSE gIberr
         /\ gIbcntl' = c.n
         /\ chunks' = [chunks EXCEPT ![t] = Append(@, c)]
         /\ LET r == Receive(c.w, c.e)
                st == IF r.kind # "Ok" THEN Step("done", r, result[t], -1)
                      ELSE read_body(from_ibsta(c.w), c.n, Stored(c), result[t])
            IN /\ result' = [result EXCEPT ![t] = st.res]
               /\ used' = [used EXCEPT ![t] = IF st.cnt >= 0 THEN Append(@, st.cnt) ELSE @]
               /\ outcome' = [outcome EXCEPT ![t] = st.out]
               /\ pc' = [pc EXCEPT ![t] = st.next]
    /\ nreq' = [nreq EXCEPT ![t] = @ + 1]
    /\ UNCHANGED << wrapVars, lifeVars, pureVars >>
    /\ UNCHANGED << tasks, drv, ud, op, wk, buffer, wres, waits,
                    issueErr, stale >>

\* a query that goes on to its read whatever the write returned
query_read_always(t) ==
    /\ t \in tasks
    /\ fn \in QueryApis
    /\ ret = NoRet
    /\ op[t] = WriteOf(fn)
    /\ pc[t] = "done"
    /\ calls' = << outcome[t] >>
    /\ op' = [op EXCEPT ![t] = ReadOf(fn)]
    /\ pc' = [pc EXCEPT ![t] = "loop"]
    /\ nreq' = [nreq EXCEPT ![t] = 0]
    /\ waits' = [waits EXCEPT ![t] = 0]
    /\ chunks' = [chunks EXCEPT ![t] = << >>]
    /\ wres' = [wres EXCEPT ![t] = NoRes]
    /\ outcome' = [outcome EXCEPT ![t] = NoOutcome]
    /\ UNCHANGED << fn, arg, ret, wrapVars, lifeVars, globVars >>
    /\ UNCHANGED << tasks, drv, ud, wk, buffer, result, used, issueErr, stale >>

\* the write of the query returned Ok: the `?` lets the query go on to its
\* read
query_read(t) ==
    /\ t \in tasks
    /\ fn \in QueryApis
    /\ ret = NoRet
    /\ op[t] = WriteOf(fn)
    /\ pc[t] = "done"
    /\ outcome[t].kind = "Ok"
    /\ calls' = << outcome[t] >>
    /\ op' = [op EXCEPT ![t] = ReadOf(fn)]
    /\ pc' = [pc EXCEPT ![t] = "loop"]
    /\ nreq' = [nreq EXCEPT ![t] = 0]
    /\ waits' = [waits EXCEPT ![t] = 0]
    /\ chunks' = [chunks EXCEPT ![t] = << >>]
    /\ wres' = [wres EXCEPT ![t] = NoRes]
    /\ outcome' = [outcome EXCEPT ![t] = NoOutcome]
    /\ UNCHANGED << fn, arg, ret, wrapVars, lifeVars, globVars >>
    /\ UNCHANGED << tasks, drv, ud, wk, buffer, result, used, issueErr, stale >>

\* the query returns: the error of its write (the `?`), or what its read
\* returned
query_return(t) ==
    /\ t \in tasks
    /\ fn \in QueryApis
    /\ ret = NoRet
    /\ pc[t] = "done"
    /\ op[t] = ReadOf(fn) \/ outcome[t].kind # "Ok"
    /\ ret' = outcome[t]
    /\ UNCHANGED << fn, arg, calls, asyncVars, globVars, wrapVars, lifeVars >>

QueryNext ==
    \/ \E t \in Tasks, api \in QueryApis : query_start(t, api)
    \/ \E t \in Tasks : Issue(t)
    \/ \E t \in Tasks : WaitReturn(t)
    \/ \E t \in Tasks : WorkerFails(t)
    \/ \E t \in Tasks : Resume(t)
    \/ \E t \in Tasks : blocking_write(t)
    \/ \E t \in Tasks : BlockingChunk(t)
    \/ \E t \in Tasks : send(t)
    \/ \E t \in Tasks : receive(t)
    \/ \E t \in Tasks : query_read(t)
    \/ \E t \in Tasks : query_return(t)

QueryInit ==
    /\ fn = "none"
    /\ arg = [kind |-> "query"]
    /\ ret = NoRet
    /\ calls = << >>

(***************************************************************************)
(* IbTimeout (types.rs).  Durations are counted in microseconds.           *)
(***************************************************************************)
\* how far around each timeout level the durations given to closest_from go
MaxOver == 2

\* IbTimeout::as_timeout
as_timeout(t) ==
    CASE t = "TNone" -> 0
      [] t = "T10us" -> 1
      [] t = "T30us" -> 2
      [] t = "T100us" -> 3
      [] t = "T300us" -> 4
      [] t = "T1ms" -> 5
      [] t = "T3ms" -> 6
      [] t = "T10ms" -> 7
      [] t = "T30ms" -> 8
      [] t = "T100ms" -> 9
      [] t = "T300ms" -> 10
      [] t = "T1s" -> 11
      [] t = "T3s" -> 12
      [] t = "T10s" -> 13
      [] t = "T30s" -> 14
      [] t = "T100s" -> 15
      [] t = "T300s" -> 16
      [] t = "T1000s" -> 17

\* IbTimeout::as_duration; Duration::MAX is above every duration given
as_duration(t) ==
    CASE t = "TNone" -> 2147483647
      [] t = "T10us" -> 10
      [] t = "T30us" -> 30
      [] t = "T100us" -> 100
      [] t = "T300us" -> 300
      [] t = "T1ms" -> 1000
      [] t = "T3ms" -> 3000
      [] t = "T10ms" -> 10000
      [] t = "T30ms" -> 30000
      [] t = "T100ms" -> 100000
      [] t = "T300ms" -> 300000
      [] t = "T1s" -> 1000000
      [] t = "T3s" -> 3000000
      [] t = "T10s" -> 10000000
      [] t = "T30s" -> 30000000
      [] t = "T100s" -> 100000000
      [] t = "T300s" -> 300000000
      [] t = "T1000s" -> 1000000000

\* the array closest_from goes through
TimeoutArray ==
    << "T10us", "T30us", "T100us", "T300us", "T1ms", "T3ms", "T10ms", "T30ms",
       "T100ms", "T300ms", "T1s", "T3s", "T10s", "T30s", "T100s", "T300s", "T1000s" >>

\* closest_from that wants a level strictly above the duration
RECURSIVE closest_from_strict(_, _)
closest_from_strict(timeout, i) ==
    IF i > Len(TimeoutArray) THEN "TNone"
    ELSE IF as_duration(TimeoutArray[i]) > timeout THEN TimeoutArray[i]
    ELSE closest_from_strict(timeout, i + 1)

\* IbTimeout::closest_from, from element i of the array on
RECURSIVE closest_from(_, _)
closest_from(timeout, i) ==
    IF i > Len(TimeoutArray) THEN "TNone"
    ELSE IF as_duration(TimeoutArray[i]) >= timeout THEN TimeoutArray[i]
    ELSE closest_from(timeout, i + 1)

\* the durations around the timeout levels, and 0
DurationInputs ==
    {0} \cup { as_duration(TimeoutArray[i]) + k :
                 i \in 1 .. Len(TimeoutArray), k \in (0 - MaxOver) .. MaxOver }

\* IbTimeout::closest_from(arg.d), and the code of the level it returns
ClosestFrom ==
    /\ fn = "none"
    /\ arg.kind = "duration"
    /\ fn' = "closest_from"
    /\ ret' = [kind |-> "IbTimeout", t |-> closest_from(arg.d, 1),
               code |-> as_timeout(closest_from(arg.d, 1))]
    /\ UNCHANGED << arg, calls, asyncVars, globVars, wrapVars, lifeVars >>

TimeoutInit ==
    /\ fn = "none"
    /\ arg \in [kind : {"duration"}, d : DurationInputs]
    /\ ret = NoRet
    /\ calls = << >>

(***************************************************************************)
(* Specifications.                                                         *)
(***************************************************************************)
\* one task alone, every answer of the driver
InitSeq == AsyncInit({1}, "full", {[t \in Tasks |-> 0]}) /\ WrapInit /\ LifeInit /\ PureIdle
SpecSeq == InitSeq /\ [][AsyncNext]_vars

\* two tasks, on the same or on different descriptors
InitConc ==
    /\ AsyncInit(Tasks, "core", {[t \in Tasks |-> 0], [t \in Tasks |-> t - 1]})
    /\ WrapInit
    /\ LifeInit
    /\ PureIdle
SpecConc == InitConc /\ [][AsyncNext]_vars

\* one thread calls a traditional wrapper, other threads call the driver
InitWrap == AsyncInit({}, "core", {[t \in Tasks |-> 0]}) /\ WrapInit /\ LifeInit /\ PureIdle
SpecWrap == InitWrap /\ [][WrapNext]_vars

\* handles are opened, used and dropped
InitLife == AsyncInit({}, "core", {[t \in Tasks |-> 0]}) /\ WrapInit /\ LifeInit /\ PureIdle
SpecLife == InitLife /\ [][LifeNext]_vars

\* the address constructors and the open paths on every input pair
InitAddr == AsyncInit({}, "core", {[t \in Tasks |-> 0]}) /\ WrapInit /\ LifeInit /\ AddrInit
SpecAddr == InitAddr /\ [][AddrNext]_vars

\* the error decoder on every code
InitErr == AsyncInit({}, "core", {[t \in Tasks |-> 0]}) /\ WrapInit /\ LifeInit /\ ErrInit
SpecErr == InitErr /\ [][FromIberr]_vars

\* the status decoder and encoder on every word and every flag combination
InitStatus == AsyncInit({}, "core", {[t \in Tasks |-> 0]}) /\ WrapInit /\ LifeInit /\ StatusInit
SpecStatus == InitStatus /\ [][StatusNext]_vars

\* the list operations on every list
InitList == AsyncInit({}, "core", {[t \in Tasks |-> 0]}) /\ WrapInit /\ LifeInit /\ ListInit
SpecList == InitList /\ [][ListNext]_vars

\* ibdev and ibfind on every answer of the driver
InitOpen == AsyncInit({}, "core", {[t \in Tasks |-> 0]}) /\ WrapInit /\ LifeInit /\ SyncInit
SpecOpen == InitOpen /\ [][OpenNext]_vars

\* one invocation of a synchronous wrapper, or one task running an
\* asynchronous operation
InitRetry == InitSeq \/ InitOpen
SpecRetry == InitRetry /\ [][RetryNext]_vars

\* two tasks; the runtime goes on polling task 2 and the driver's waits for
\* task 2 return, while nothing is assumed of task 1
FairTask(t) ==
    /\ WF_vars(Issue(t))
    /\ WF_vars(WaitReturn(t))
    /\ WF_vars(Resume(t))
    /\ WF_vars(BlockingChunk(t))
SpecConcFair == SpecConc /\ FairTask(2)

\* the VISA strings of every Instrument and the parse of given strings
InitVisa == AsyncInit({}, "core", {[t \in Tasks |-> 0]}) /\ WrapInit /\ LifeInit /\ VisaInit
SpecVisa == InitVisa /\ [][VisaNext]_vars

\* one task whose worker may fail to run to completion
InitJoin == AsyncInit({1}, "full", {[t \in Tasks |-> 0]}) /\ WrapInit /\ LifeInit /\ PureIdle
JoinNext ==
    \/ AsyncNext
    \/ \E t \in Tasks : WorkerFails(t)
SpecJoin == InitJoin /\ [][JoinNext]_vars

\* the list operations of a board on lists of instruments
InitBoard == AsyncInit({}, "core", {[t \in Tasks |-> 0]}) /\ WrapInit /\ LifeInit /\ BoardInit
SpecBoard == InitBoard /\ [][BoardNext]_vars

\* one task that runs a query
InitQuery == AsyncInit({1}, "full", {[t \in Tasks |-> 0]}) /\ WrapInit /\ LifeInit /\ QueryInit
SpecQuery == InitQuery /\ [][QueryNext]_vars

\* closest_from on the durations around every level
InitTimeout == AsyncInit({}, "core", {[t \in Tasks |-> 0]}) /\ WrapInit /\ LifeInit /\ TimeoutInit
SpecTimeout == InitTimeout /\ [][ClosestFrom]_vars

Init == InitSeq
Next == AsyncNext
Spec == SpecSeq

(***************************************************************************)
(* Properties.                                                             *)
(***************************************************************************)
AsyncOps == {"aread", "hread", "awrite", "hwrite"}
WriteOps == {"awrite", "hwrite"}
LastChunk(t) == chunks[t][Len(chunks[t])]

\* a write that was issued without ERR has returned
WriteDone(t) ==
    /\ t \in tasks
    /\ op[t] \in WriteOps
    /\ pc[t] = "done"
    /\ ~ issueErr[t]
    /\ Len(chunks[t]) = 1

\* C1: once an asynchronous write was issued without ERR, the status word of
\* the wait decides the result: TIMO without ERR gives Timeout, otherwise
\* CMPL or END gives success, every other status without ERR gives
\* ValueError; success is never returned without CMPL or END.
C1_WritePolicy ==
    \A t \in Tasks :
        (WriteDone(t) /\ ~ from_ibsta(chunks[t][1].w).err) =>
            LET st == from_ibsta(chunks[t][1].w)
                k == outcome[t].kind
            IN /\ st.timo => k = "Timeout"
               /\ (~ st.timo /\ (st.cmpl \/ st.end)) => k = "Ok"
               /\ (~ st.timo /\ ~ st.cmpl /\ ~ st.end) => k = "ValueError"
               /\ k = "Ok" => (st.cmpl \/ st.end)

\* InstrumentHandle::write woke with RQS alone and returned ValueError
C1_Witness ==
    \E t \in Tasks :
        /\ WriteDone(t)
        /\ op[t] = "hwrite"
        /\ chunks[t][1].w = RQS
        /\ outcome[t].kind = "ValueError"

\* chunk c ends a read
EndsAt(c) == c.n = 0 \/ c.n < BUFFER_SIZE \/ from_ibsta(c.w).end
\* no completion carries ERR or TIMO
Clean(cs) ==
    \A i \in 1 .. Len(cs) : ~ from_ibsta(cs[i].w).err /\ ~ from_ibsta(cs[i].w).timo
\* no completion reports more bytes than the buffer holds
Fits(cs) == \A i \in 1 .. Len(cs) : cs[i].n <= BUFFER_SIZE
\* the bytes of chunks 1..k, in order
RECURSIVE ConcatChunks(_, _)
ConcatChunks(cs, k) ==
    IF k = 0 THEN << >> ELSE ConcatChunks(cs, k - 1) \o Run(cs[k].b, cs[k].n)

\* a read whose requests were all issued without ERR has returned
ReadDone(t) ==
    /\ t \in tasks
    /\ op[t] \in ReadOps
    /\ pc[t] = "done"
    /\ ~ issueErr[t]
    /\ Len(chunks[t]) >= 1

\* C2 as stated: for completions without ERR and TIMO the read issues exactly
\* k requests, k the first chunk with count 0, a count below 1024 or END, and
\* returns the bytes of chunks 1..k in order.
C2_AsStated ==
    \A t \in Tasks :
        (ReadDone(t) /\ Clean(chunks[t])) =>
            /\ EndsAt(LastChunk(t))
            /\ \A i \in 1 .. (Len(chunks[t]) - 1) : ~ EndsAt(chunks[t][i])
            /\ nreq[t] = Len(chunks[t])
            /\ outcome[t].kind = "Ok"
            /\ outcome[t].val = ConcatChunks(chunks[t], Len(chunks[t]))

\* chunk c stops a read: its count is not exactly the buffer size, or END
Stops(c) == c.n # BUFFER_SIZE \/ from_ibsta(c.w).end

\* C2, amended: for completions without ERR and TIMO, the read issues no
\* request after the first chunk k whose count differs from 1024 or that has
\* END, and it returns after exactly k requests: the bytes of chunks 1..k in
\* order when no count exceeds 1024 and the bytes are valid UTF-8, ValueError
\* when they are not valid UTF-8, and no success when a count exceeds 1024.
C2_ChunkLoop ==
    \A t \in Tasks :
        (t \in tasks /\ op[t] \in ReadOps /\ Clean(chunks[t])) =>
            /\ \A i \in 1 .. Len(chunks[t]) :
                  Stops(chunks[t][i]) => (i = Len(chunks[t]) /\ nreq[t] = i)
            /\ ReadDone(t) =>
                  LET bytes == ConcatChunks(chunks[t], Len(chunks[t]))
                  IN /\ Stops(LastChunk(t))
                     /\ nreq[t] = Len(chunks[t])
                     /\ (Fits(chunks[t]) /\ Utf8Valid(bytes)) =>
                           (outcome[t].kind = "Ok" /\ outcome[t].val = bytes)
                     /\ (Fits(chunks[t]) /\ ~ Utf8Valid(bytes)) =>
                           outcome[t].kind = "ValueError"
                     /\ ~ Fits(chunks[t]) => outcome[t].kind # "Ok"

\* InstrumentHandle::read got chunks of 1024, 1024 and 500 bytes with END on
\* the last only, issued 3 requests and returned the 2548 bytes
C2_Witness ==
    \E t \in Tasks :
        /\ ReadDone(t)
        /\ op[t] = "hread"
        /\ Len(chunks[t]) = 3
        /\ << chunks[t][1].n, chunks[t][2].n, chunks[t][3].n >> = << 1024, 1024, 500 >>
        /\ ~ from_ibsta(chunks[t][1].w).end
        /\ ~ from_ibsta(chunks[t][2].w).end
        /\ from_ibsta(chunks[t][3].w).end
        /\ nreq[t] = 3
        /\ outcome[t].kind = "Ok"
        /\ ByteLen(outcome[t].val) = 2548

\* the asynchronous operations outstanding on descriptor u: issued, and the
\* matching native ibwait has not returned
Outstanding(u) == { t \in tasks : ud[t] = u /\ wk[t] = "running" }

\* C3: at most one asynchronous operation is outstanding on a descriptor.
C3_OneOutstanding == \A u \in Uds : Cardinality(Outstanding(u)) <= 1

\* C4: the byte count an asynchronous read slices a chunk with, and the
\* error it reports after a wait with ERR, are those of its own completion.
C4_OwnCompletion ==
    \A t \in Tasks :
        (t \in tasks /\ op[t] \in {"aread", "hread"}) =>
            /\ \A i \in 1 .. Len(used[t]) : used[t][i] = chunks[t][i].n
            /\ (/\ pc[t] = "done"
                /\ ~ issueErr[t]
                /\ Len(chunks[t]) >= 1
                /\ outcome[t].kind = "DriverError") =>
                   /\ outcome[t].status = LastChunk(t).w
                   /\ outcome[t].err.kind = from_iberr(LastChunk(t).e, 0).kind
                   /\ outcome[t].err.val = from_iberr(LastChunk(t).e, LastChunk(t).n).val

\* C5: the integer carried by EDVR / EFSO is the count of the retrieval
\* context the code was read from (ThreadIbcntl, or AsyncIbcntl for ibwait),
\* as the failed call left it.
C5_SecondaryFromContext ==
    (wpc = "done" /\ wout.kind = "DriverError" /\ wout.err.kind \in {"EDVR", "EFSO"}) =>
        wout.err.val = IF wkind = "ibwait" THEN aIbcntl ELSE tIbcntl

\* C6: a wrapper whose native call returned a status with ERR returns
\* DriverError with that status, and it returns DriverError in no other case.
C6_ErrIsDriverError ==
    wpc = "done" =>
        /\ from_ibsta(wret).err => (wout.kind = "DriverError" /\ wout.status = wret)
        /\ wout.kind = "DriverError" => from_ibsta(wret).err

\* C7: the asynchronous read and write return Timeout exactly when the status
\* of the wait has TIMO and not ERR, and DriverError when it has both.
C7_TimeoutExactly ==
    \A t \in Tasks :
        (/\ t \in tasks
         /\ op[t] \in AsyncOps
         /\ pc[t] = "done"
         /\ ~ issueErr[t]
         /\ Len(chunks[t]) >= 1) =>
            LET st == from_ibsta(LastChunk(t).w)
            IN /\ outcome[t].kind = "Timeout" <=> (st.timo /\ ~ st.err)
               /\ (st.timo /\ st.err) => outcome[t].kind = "DriverError"

\* C8: ibonl(ud, Close) is issued exactly once for the descriptor of every
\* handle, at its drop, and never for a descriptor that is not open; two
\* live handles never hold the same descriptor.
C8_CloseOnce ==
    /\ ~ badClose
    /\ \A h \in Handles :
          /\ hstate[h] = "none" => closes[h] = 0
          /\ hstate[h] = "live" => (closes[h] = 0 /\ hud[h] \in openUds)
          /\ hstate[h] = "dropped" => closes[h] = 1
    /\ \A g, h \in Handles :
          (g # h /\ hstate[g] = "live" /\ hstate[h] = "live") => hud[g] # hud[h]

\* two handles held the same descriptor one after the other, and each was
\* closed once
C8_Witness ==
    \E g, h \in Handles :
        /\ g # h
        /\ hstate[g] = "dropped"
        /\ hstate[h] = "dropped"
        /\ hud[g] = hud[h]
        /\ closes[g] = 1
        /\ closes[h] = 1

\* C9: while an asynchronous read is outstanding, its chunk buffer is
\* allocated.
C9_BufferOutlivesRead ==
    \A t \in Tasks :
        (t \in tasks /\ op[t] \in {"aread", "hread"} /\ wk[t] = "running") =>
            buffer[t] # NoBuffer

\* C10: a read whose driver reports more bytes than the buffer holds returns
\* ValueError and copies nothing.
C10_CountAboveCapacity ==
    \A t \in Tasks :
        (/\ ReadDone(t)
         /\ ~ from_ibsta(LastChunk(t).w).err
         /\ ~ from_ibsta(LastChunk(t).w).timo
         /\ LastChunk(t).n > BUFFER_SIZE) =>
            /\ outcome[t].kind = "ValueError"
            /\ result[t] = ConcatChunks(chunks[t], Len(chunks[t]) - 1)

\* the legal inputs of the two constructors
LegalPad(x) == x \in 0 .. 30
LegalSad(x) == x \in 0 .. 30 \/ x \in 96 .. 126

\* C11: a primary address outside [0,30] and a secondary address outside
\* [0,30] and [0x60,0x7e] is rejected with ValueError by the constructors,
\* and open of lib.rs, from_visa_string + Instrument::open and ibdev make no
\* native call for such an address.
C11_AddressRejected ==
    /\ (fn = "PrimaryAddress::new" /\ ~ LegalPad(arg.p)) => ret.kind = "ValueError"
    /\ (fn = "SecondaryAddress::new" /\ ~ LegalSad(arg.s)) => ret.kind = "ValueError"
    /\ (fn \in {"open", "from_visa_string"} /\ ~ LegalPad(arg.p)) =>
          (ret.kind = "ValueError" /\ calls = << >>)
    /\ (fn = "ibdev" /\ (~ LegalPad(arg.p) \/ ~ LegalSad(arg.s))) =>
          (ret.kind = "ValueError" /\ calls = << >>)

\* open of lib.rs was given primary address 31, returned ValueError and
\* made no native call
C11_Witness ==
    /\ fn = "open"
    /\ arg.p = 31
    /\ ret.kind = "ValueError"
    /\ calls = << >>

\* C14 as stated: for p in [0,30] and a secondary s in [0,30], pack and
\* unpack give p and the secondary s (stored as s + 0x60), so that the
\* secondary 0 differs from the disabled secondary (stored as 0).
C14_AsStated ==
    (fn = "Addr4882" /\ LegalPad(arg.p) /\ arg.s \in 0 .. 30) =>
        /\ ret.kind = "Ok"
        /\ ret.pad = OkVal(arg.p)
        /\ ret.sad = OkVal(arg.s + 96)
        /\ ret.sad # SecondaryAddress_default

\* C14, amended: for p in [0,30] and a secondary input s that is 0
\* (disabled), in [1,30] or in [0x60,0x7e], pack and unpack succeed and give
\* p and the value SecondaryAddress::new(s) stored: 0 for the input 0,
\* s + 0x60 for s in [1,30], s for s in [0x60,0x7e]; secondary address 0 is
\* the input 0x60 and differs from the disabled secondary.
C14_PackUnpack ==
    (fn = "Addr4882" /\ LegalPad(arg.p) /\ LegalSad(arg.s)) =>
        /\ ret.kind = "Ok"
        /\ GetPAD(ret.addr) = arg.p
        /\ ret.pad = OkVal(arg.p)
        /\ ret.sad = SecondaryAddress_new(arg.s)
        /\ GetSAD(ret.addr) = ret.sad.val
        /\ arg.s = 0 => ret.sad = SecondaryAddress_default
        /\ arg.s \in 1 .. 30 => ret.sad = OkVal(arg.s + 96)
        /\ arg.s \in 96 .. 126 => (ret.sad = OkVal(arg.s) /\ ret.sad # SecondaryAddress_default)

\* primary 30 with secondary 30 was packed and unpacked to 30 and 0x7e
C14_Witness ==
    /\ fn = "Addr4882"
    /\ arg.p = 30
    /\ arg.s = 30
    /\ ret.kind = "Ok"
    /\ ret.pad = OkVal(30)
    /\ ret.sad = OkVal(126)

\* C15: a constructed SecondaryAddress stores 0 or a value in [0x60,0x7e]:
\* s in [1,30] is stored as s + 0x60, s in [0x60,0x7e] unchanged, so new(s)
\* and new(s + 0x60) store the same value, and ibdev hands the stored value
\* to the native call.
C15_SecondaryStored ==
    /\ SecondaryAddress_default.val = 0
    /\ (fn = "SecondaryAddress::new" /\ ret.kind = "Ok") =>
          /\ ret.val = 0 \/ ret.val \in 96 .. 126
          /\ arg.s \in 1 .. 30 =>
                (ret.val = arg.s + 96 /\ SecondaryAddress_new(arg.s + 96) = ret)
          /\ arg.s \in 96 .. 126 => ret.val = arg.s
    /\ (fn = "ibdev" /\ calls # << >>) =>
          /\ calls[1].sad = SecondaryAddress_new(arg.s).val
          /\ calls[1].sad = 0 \/ calls[1].sad \in 96 .. 126

\* ibdev was given the secondary input 5 and the native call got 0x65
C15_Witness ==
    /\ fn = "ibdev"
    /\ arg.s = 5
    /\ Len(calls) = 1
    /\ calls[1].sad = 101

\* the codes from_iberr has an arm for
KnownCodes == {0, 1, 2, 3, 4, 5, 6, 7, 8, 10, 11, 12, 14, 15, 16, 20}

C13_StatusRoundTrip ==
    /\ (fn = "from_ibsta.as_ibsta" /\ arg.x < Pow2(ERR_NUM + 1)) => ret.x = arg.x
    /\ fn = "as_ibsta.from_ibsta" =>
          (ret.s = arg.s /\ ret.x \in 0 .. Pow2(ERR_NUM + 1) - 1)

\* the flags with only END and RQS set went through the word 0x2800 and back
C13_Witness ==
    /\ fn = "as_ibsta.from_ibsta"
    /\ arg.s = from_ibsta(END + RQS)
    /\ ret.x = 10240
    /\ ret.s.end /\ ret.s.rqs /\ ~ ret.s.err

ListOps == SimpleListOps \cup {"FindLstn", "FindRQS"}
Finders == {"FindLstn", "FindAllLstn", "find_listeners"}
Count(list, x) == Cardinality({i \in 1 .. Len(list) : list[i] = x})

\* C16 as stated: every list operation passes the caller's addresses in
\* order followed by exactly one NOADDR, and the collection FindLstn,
\* FindAllLstn and Board::find_listeners return holds no NOADDR and has as
\* many entries as the driver reported.
C16_ListTerminated ==
    /\ fn \in ListOps =>
          /\ Len(calls) = 1
          /\ calls[1].list = AddrList(arg.n, arg.order) \o << NOADDR >>
          /\ Count(calls[1].list, NOADDR) = 1
    /\ (fn \in Finders /\ ret.kind = "Ok") =>
          /\ Len(ret.val) = calls[1].c
          /\ \A i \in 1 .. Len(ret.val) :
                (IF fn = "find_listeners" THEN ret.val[i].addr ELSE ret.val[i]) # NOADDR

\* C17 as stated: FindRQS returns the address at the reported index when
\* the index is within the list, and ValueError for every index that is
\* negative or not below the length of the list.
C17_AsStated ==
    fn = "FindRQS" =>
        /\ ret.kind = "Ok" =>
              /\ calls[1].c \in 0 .. arg.n - 1
              /\ ret.val = << AddrList(arg.n, arg.order)[calls[1].c + 1] >>
        /\ calls[1].c \notin 0 .. arg.n - 1 => ret.kind = "ValueError"

\* C17, amended: FindRQS returns an address only when the call reports no
\* ERR and the reported index is within the list, then the address at that
\* index; when the call reports no ERR, every index that is negative or not
\* below the length of the list (the empty list included) gives ValueError;
\* when the call reports ERR the outcome is an error whatever the index.
C17_IndexChecked ==
    fn = "FindRQS" =>
        /\ ret.kind = "Ok" =>
              /\ ~ from_ibsta(calls[1].w).err
              /\ calls[1].c \in 0 .. arg.n - 1
              /\ ret.val = << AddrList(arg.n, arg.order)[calls[1].c + 1] >>
        /\ (~ from_ibsta(calls[1].w).err /\ calls[1].c \notin 0 .. arg.n - 1) =>
              ret.kind = "ValueError"
        /\ (~ from_ibsta(calls[1].w).err /\ calls[1].c \in 0 .. arg.n - 1) =>
              ret.kind = "Ok"
        /\ from_ibsta(calls[1].w).err => ret.kind \in {"DriverError", "ValueError"}

\* FindRQS on three addresses got the index 3 without ERR and returned
\* ValueError
C17_Witness ==
    /\ fn = "FindRQS"
    /\ arg.n = 3
    /\ ~ from_ibsta(calls[1].w).err
    /\ calls[1].c = 3
    /\ ret.kind = "ValueError"

\* C18: FindAllLstn and Board::find_listeners pass the primary addresses 1
\* to 30, each once, in increasing order, without secondary address, and
\* return only the addresses the driver reported, each attached to the
\* board.
C18_AllListeners ==
    fn \in {"FindAllLstn", "find_listeners"} =>
        /\ Len(calls) = 1
        /\ calls[1].list = [i \in 1 .. 31 |-> IF i = 31 THEN NOADDR ELSE i]
        /\ \A i \in 1 .. 30 :
              GetPAD(calls[1].list[i]) = i /\ GetSAD(calls[1].list[i]) = 0
        /\ calls[1].limit <= ResultLen
        /\ ret.kind # "Crash"
        /\ ret.kind = "Ok" =>
              /\ Len(ret.val) = calls[1].c
              /\ \A i \in 1 .. Len(ret.val) :
                    IF fn = "find_listeners"
                    THEN ret.val[i] = [board |-> arg.b, addr |-> Found(AllPads, calls[1].c)[i]]
                    ELSE ret.val[i] = Found(AllPads, calls[1].c)[i]

\* Board::find_listeners on board 1 returned the two listeners the driver
\* reported, at the primary addresses 1 and 2
C18_Witness ==
    /\ fn = "find_listeners"
    /\ arg.b = 1
    /\ calls[1].c = 2
    /\ ret.kind = "Ok"
    /\ ret.val = << [board |-> 1, addr |-> 1], [board |-> 1, addr |-> 2] >>

\* C19: ibdev and ibfind return the descriptor exactly when the native call
\* returned one that is not negative, whatever the ERR bit, and for every
\* negative descriptor they return DriverError with the status and the
\* decoded error of the call.
C19_OpenByDescriptor ==
    (fn \in OpenWrappers /\ calls # << >>) =>
        /\ ret.kind = "Ok" <=> calls[1].d >= 0
        /\ calls[1].d >= 0 => ret.n = calls[1].d
        /\ calls[1].d < 0 =>
              /\ ret.kind = "DriverError"
              /\ ret.status = calls[1].w
              /\ ret.err.kind = from_iberr(calls[1].e, 0).kind

\* C20 as stated: every invocation of a synchronous traditional wrapper
\* makes exactly one call of its driver entry point, whatever the outcome.
C20_ExactlyOnce ==
    fn \in SyncWrappers => (Len(calls) = 1 /\ calls[1].name = fn)

\* after Timeout or DriverError the operation of task t issues nothing
NoFurtherCall(t) ==
    outcome[t].kind \in {"Timeout", "DriverError"} =>
        /\ nreq'[t] = nreq[t]
        /\ waits'[t] = waits[t]
        /\ outcome'[t] = outcome[t]

\* C20, amended: every invocation of a synchronous traditional wrapper makes
\* at most one call of its driver entry point and never a second one,
\* whatever the outcome; it makes none exactly when the conversion of its
\* name or path argument fails (ibbna, ibfind, ibrdf, ibwrtf), and then it
\* returns ValueError.  After an outcome of Timeout or DriverError the
\* asynchronous read and write issue no further ibrda, ibwrta or ibwait.
C20_NoRetry ==
    /\ [](fn \in SyncWrappers =>
            /\ Len(calls) <= 1
            /\ Len(calls) = 0 <=> NameFails(fn, arg.name)
            /\ Len(calls) = 0 => ret.kind = "ValueError"
            /\ Len(calls) = 1 => calls[1].name = fn)
    /\ [][\A t \in Tasks : NoFurtherCall(t)]_vars

\* ibwrt returned DriverError after its single native call
C20_Witness ==
    /\ fn = "ibwrt"
    /\ ret.kind = "DriverError"
    /\ Len(calls) = 1
    /\ calls[1].name = "ibwrt"

\* a wait of task t starts in this step
WaitStarts(t) == waits'[t] > waits[t]

C22_WaitsIndependent ==
    /\ [](( /\ ud[1] # ud[2]
            /\ pc[1] = "suspended" /\ wk[1] = "running"
            /\ op[2] \in AsyncOps ) =>
              /\ pc[2] = "loop" => ENABLED Issue(2)
              /\ (pc[2] = "suspended" /\ wk[2] = "running") => ENABLED WaitReturn(2)
              /\ (pc[2] = "suspended" /\ wk[2] = "returned") => ENABLED Resume(2))
    /\ (ud[1] # ud[2] /\ pc[2] = "loop") ~> (pc[2] \in {"done", "dropped"})

\* task 2 has read its message on descriptor 1 while task 1 is still
\* suspended in its first wait on descriptor 0
C22_Witness ==
    /\ ud[1] = 0 /\ ud[2] = 1
    /\ pc[1] = "suspended" /\ wk[1] = "running" /\ waits[1] = 1
    /\ op[2] = "hread"
    /\ pc[2] = "done"
    /\ outcome[2].kind = "Ok"

\* "GPIB0::1::INSTR"
GPIB0_1 ==
    << "G", "P", "I", "B", "0", ":", ":", "1", ":", ":", "I", "N", "S", "T", "R" >>

\* C23: for every board index b >= 0 and primary address p in [0,30],
\* from_visa_string of the string visa_string makes for (b, p) succeeds
\* with board b and primary p; "GPIB0::1::INSTR" parses to board 0 and
\* primary 1 and serializes again to the same string.
C23_VisaRoundTrip ==
    /\ (fn = "visa_string.from_visa_string" /\ arg.b >= 0 /\ arg.p \in 0 .. 30) =>
          /\ ret.kind = "Ok"
          /\ ret.board = arg.b
          /\ ret.pad = arg.p
          /\ ret.again = ret.text
    /\ (fn = "from_visa_string.visa_string" /\ arg.s = GPIB0_1) =>
          /\ ret.kind = "Ok"
          /\ ret.board = 0
          /\ ret.pad = 1
          /\ ret.again = GPIB0_1

\* board 12 with primary 30 went through "GPIB12::30::INSTR" and back
C23_Witness ==
    /\ fn = "visa_string.from_visa_string"
    /\ arg.b = 12
    /\ arg.p = 30
    /\ ret.text = << "G", "P", "I", "B", "1", "2", ":", ":", "3", "0", ":", ":",
                     "I", "N", "S", "T", "R" >>
    /\ ret.kind = "Ok"
    /\ ret.board = 12
    /\ ret.pad = 30

FiniteLevels == { TimeoutArray[i] : i \in 1 .. Len(TimeoutArray) }

C25_WorkerFailure ==
    \A t \in tasks :
        /\ (op[t] \in AsyncOps /\ wres[t].kind = "JoinError") =>
              /\ pc[t] \in {"suspended", "dropped", "done"}
              /\ pc[t] = "suspended" => wk[t] = "returned"
              /\ pc[t] = "done" => outcome[t] = TokioError
        /\ (pc[t] = "done" /\ outcome[t].kind \in {"TokioError", "JoinError"}) =>
              wres[t].kind = "JoinError"

\* the worker of the second wait of an InstrumentHandle::read failed
C25_Witness ==
    /\ op[1] = "hread"
    /\ waits[1] = 2
    /\ wres[1] = JoinError
    /\ pc[1] = "done"
    /\ outcome[1] = TokioError

\* C26: whenever the native write reports a status without ERR, ibwrt
\* returns Ok with the byte count of the driver, whatever the bytes given as
\* data.
C26_WriteOk ==
    (wpc = "done" /\ wkind = "ibwrt" /\ ~ from_ibsta(wret).err) =>
        wout = Success(<< >>, tIbcntl)

\* C27: every descriptor that ibdev returned inside Instrument::open and
\* that is still open was handed to an InstrumentHandle by that open; no
\* open, and none whose ibclr failed, leaves a descriptor open without owner.
C27_OpenOwnsOrCloses ==
    \A u \in openUds :
        /\ u \notin unowned
        /\ \E h \in Handles : hud[h] = u /\ hstate[h] \in {"live", "dropped"}

\* C28: the limit that FindLstn hands to the native call is at most the
\* number of elements of the result array, for every pad list, so that the
\* driver never writes past the end of the array.
C28_LimitWithinResult ==
    fn \in {"FindLstn", "FindAllLstn", "find_listeners"} =>
        /\ calls[1].limit <= ResultLen
        /\ ret.kind # "Crash"

\* C29: clear_devices and send_list return ValueError without a native call
\* when some instrument of the list belongs to another board than the one
\* they are called on; otherwise they make one call of DevClearList /
\* SendList for this board with the addresses of the instruments in order.
C29_SameBoardOnly ==
    fn \in {"clear_devices", "send_list"} =>
        LET instruments == Instruments(arg.boards, arg.order)
        IN IF \E i \in 1 .. Len(arg.boards) : arg.boards[i] # arg.b
           THEN ret = ValueError /\ calls = << >>
           ELSE /\ Len(calls) = 1
                /\ calls[1].name = (IF fn = "clear_devices" THEN "DevClearList" ELSE "SendList")
                /\ calls[1].board = arg.b
                /\ Len(calls[1].list) = Len(arg.boards) + 1
                /\ \A i \in 1 .. Len(arg.boards) : calls[1].list[i] = instruments[i].addr
                /\ ret.kind = "Ok" <=> ~ from_ibsta(calls[1].w).err

\* send_list of board 1 refused a list whose last instrument is of board 0
C29_Witness ==
    /\ fn = "send_list"
    /\ arg.b = 1
    /\ arg.boards = << 1, 1, 0 >>
    /\ ret = ValueError
    /\ calls = << >>

ReadIssued(t) == op[t] = ReadOf(fn) /\ nreq[t] > 0

====
